---- MODULE Spec2Model ----
(***************************************************************************)
(* A model of the turtle build tool (a Ninja clone): the build graph and   *)
(* its validation (src/src/validation/build_graph.rs), the two staleness   *)
(* hashes (src/src/run/hash.rs) and the asynchronous runner                *)
(* (src/src/run.rs).                                                       *)
(*                                                                         *)
(* Idealisations, each stated where it is used:                            *)
(*  - a 64-bit hash is injective: the hash of a value is the value;        *)
(*  - rand::random() returns a value never returned before;                *)
(*  - a command writes only the outputs and implicit outputs of its build; *)
(*  - petgraph's toposort and kosaraju_scc are modelled by their contracts.*)
(***************************************************************************)
EXTENDS Integers, Sequences, FiniteSets, TLC

VARIABLES
    configuration,   \* ir::Configuration: [outputs, default_outputs]
    dynamic_files,   \* the dynamic module files on disk: name -> DynamicConfiguration
    job_limit,       \* Options.job_limit
    files,           \* the file system: path -> [exists, mtime, content]
    database,        \* the hash database: build id -> BuildHash
    build_futures,   \* RunContext.build_futures: build id -> the state of its future
    graph,           \* RunContext.build_graph: [edges, primary_outputs]
    permits,         \* free permits of RunContext.job_semaphore
    run_pc,          \* position of run(): "start", "await", "flush", "returned"
    run_result,      \* result of run(): None, Some("ok") or Some(error)
    flushed,         \* database.flush() has been called in this run
    run_count,       \* number of the current run of the process
    executed,        \* ids of the builds whose command was started in this run
    stored,          \* ids of the builds whose hash was set in the database in this run
    random,          \* number of values rand::random() has returned
    history,         \* the run before and the file changed since:
                     \* [prev_ok, changed, outputs_present, skipped, path, change]
    validation,      \* the results of BuildGraph::validate and validate_dynamic in
                     \* the graph harness: [result, dynamic, later]
    console,         \* the writes to the console in this run: <<[id, part], ...>>
    console_lock,    \* ids of the builds that hold the guard of the console mutex
    report,          \* what the process reports: the output an error names, the
                     \* arguments main reads, the exit code and the message on stderr
    compiler,        \* compile(): [modules, stack, outputs, default_outputs,
                     \* built, returned, result]
    reader           \* read_modules(): [sources, pc, paths, path, modules,
                     \* dependencies, result]

vars == <<configuration, dynamic_files, job_limit, files, database, build_futures,
          graph, permits, run_pc, run_result, flushed, run_count, executed,
          stored, random, history, validation, console, console_lock, report,
          compiler, reader>>

----------------------------------------------------------------------------
(* Bounds of the model. *)

\* The process is run at most MaxRuns times on the same database.
MaxRuns == 2
\* job_limit is drawn from 1..MaxJobs.
MaxJobs == 2
\* A build of the graph harness has at most MaxInputs inputs.
MaxInputs == 1

\* The contents a file can have: a hash tells only whether two contents differ.
Contents == {"old", "new"}

----------------------------------------------------------------------------
(* Option<T>: None is the empty sequence, Some(x) a sequence of one. *)

None == <<>>
Some(x) == <<x>>
IsSome(o) == o /= <<>>

Range(s) == {s[i] : i \in 1..Len(s)}

----------------------------------------------------------------------------
(* ir::Build and ir::Configuration. *)

\* Build::calculate_id: a hash of the outputs and the implicit outputs only.
calculate_id(outputs, implicit_outputs) == <<outputs, implicit_outputs>>

\* ir::Rule: the interpolated command and the optional description.
Rule(command, description) == [command |-> command, description |-> description]

\* A Build whose id also covers its inputs.
BuildWithIdOfInputs(outputs, implicit_outputs, rule, inputs, order_only_inputs, dynamic_module) ==
    [id |-> <<outputs, implicit_outputs, inputs>>,
     outputs |-> outputs,
     implicit_outputs |-> implicit_outputs,
     rule |-> rule,
     inputs |-> inputs,
     order_only_inputs |-> order_only_inputs,
     dynamic_module |-> dynamic_module]

\* Build::new.
Build(outputs, implicit_outputs, rule, inputs, order_only_inputs, dynamic_module) ==
    [id |-> calculate_id(outputs, implicit_outputs),
     outputs |-> outputs,
     implicit_outputs |-> implicit_outputs,
     rule |-> rule,
     inputs |-> inputs,
     order_only_inputs |-> order_only_inputs,
     dynamic_module |-> dynamic_module]

\* The outputs map of compile_module: every build statement is recorded under
\* each of its outputs and implicit outputs, a later statement replacing an
\* earlier one under the same key.
CompileOutputs(statements) ==
    LET keys(b) == Range(b.outputs) \cup Range(b.implicit_outputs)
        all == UNION {keys(statements[i]) : i \in 1..Len(statements)}
        last(o) == CHOOSE i \in 1..Len(statements) :
                      /\ o \in keys(statements[i])
                      /\ \A j \in 1..Len(statements) : o \in keys(statements[j]) => j <= i
    IN  [o \in all |-> statements[last(o)]]

\* compile: the declared default outputs, or every output if none is declared.
Compile(statements, defaults) ==
    LET outputs == CompileOutputs(statements)
    IN  [outputs |-> outputs,
         default_outputs |-> IF defaults = {} THEN DOMAIN outputs ELSE defaults]

\* The builds of a configuration and their ids.
BuildsOf(config) == {config.outputs[o] : o \in DOMAIN config.outputs}
IdsOf(config) == {b.id : b \in BuildsOf(config)}
BuildOf(config, id) == CHOOSE b \in BuildsOf(config) : b.id = id

----------------------------------------------------------------------------
(* validation::BuildGraph.  The petgraph Graph is its set of edges (parallel *)
(* edges change neither toposort nor the components); nodes exist only as    *)
(* ends of edges, as in add_edge.                                            *)

\* NewEdges with the order-only inputs forgotten.
NewEdgesWithoutOrderOnly(output, build) ==
    {<<output, input>> : input \in Range(build.inputs)}
    \cup (IF output = build.outputs[1]
          THEN {<<build.outputs[i], output>> : i \in 2..Len(build.outputs)}
          ELSE {})

\* The edges BuildGraph::new adds for one key of the outputs map.
NewEdges(output, build) ==
    {<<output, input>> : input \in Range(build.inputs) \cup Range(build.order_only_inputs)}
    \cup (IF output = build.outputs[1]
          THEN {<<build.outputs[i], output>> : i \in 2..Len(build.outputs)}
          ELSE {})

\* The entries of primary_outputs BuildGraph::new records for one key.
NewPrimaries(output, build) ==
    IF output = build.outputs[1]
    THEN {<<build.outputs[i], output>> : i \in 1..Len(build.outputs)}
    ELSE {}

\* BuildGraph::new.
BuildGraphNew(outputs) ==
    LET primaries == UNION {NewPrimaries(o, outputs[o]) : o \in DOMAIN outputs}
    IN  [edges |-> UNION {NewEdges(o, outputs[o]) : o \in DOMAIN outputs},
         primary_outputs |->
            [s \in {p[1] : p \in primaries} |->
                (CHOOSE p \in primaries : p[1] = s)[2]]]

Nodes(edges) == {e[1] : e \in edges} \cup {e[2] : e \in edges}

Successors(edges, S) == {e[2] : e \in {x \in edges : x[1] \in S}}

RECURSIVE ReachSet(_, _)
ReachSet(edges, S) ==
    LET T == S \cup Successors(edges, S)
    IN  IF T = S THEN S ELSE ReachSet(edges, T)

\* There is a path of at least one edge from a to b.
Reaches(edges, a, b) == b \in ReachSet(edges, Successors(edges, {a}))

\* petgraph::algo::toposort, by its contract: Ok for an acyclic graph,
\* otherwise Err(Cycle(n)) for some node n lying on a cycle.  The result is
\* the set of the nodes the error may carry, empty when the sort succeeds.
toposort(edges) == {n \in Nodes(edges) : Reaches(edges, n, n)}

\* petgraph::algo::kosaraju_scc, by its contract: the strongly connected
\* components of the graph, each node in exactly one of them.
kosaraju_scc(edges) ==
    {{n} \cup {m \in Nodes(edges) : Reaches(edges, n, m) /\ Reaches(edges, m, n)} :
        n \in Nodes(edges)}

Ok == [ok |-> TRUE, paths |-> {}]
CircularBuildDependency(paths) == [ok |-> FALSE, paths |-> paths]

\* BuildGraph::validate: the results it may return.  On a failed sort the
\* components are sorted by size and the largest one holding the node of the
\* cycle is reported.
validate(g) ==
    LET cycles == toposort(g.edges)
        components == kosaraju_scc(g.edges)
        largest(n) == CHOOSE c \in components :
                         /\ n \in c
                         /\ \A d \in components :
                               n \in d => Cardinality(d) <= Cardinality(c)
    IN  IF cycles = {} THEN {Ok}
        ELSE {CircularBuildDependency(largest(n)) : n \in cycles}

\* DynamicEdges with the edge leaving the output itself, not its primary.
DynamicEdgesFromOutput(g, dynamic_configuration) ==
    UNION {{<<o, i>> : i \in Range(dynamic_configuration[o])} :
              o \in DOMAIN dynamic_configuration \cap DOMAIN g.primary_outputs}

\* The edges validate_dynamic adds: primary_of(output) -> input.
DynamicEdges(g, dynamic_configuration) ==
    UNION {{<<g.primary_outputs[o], i>> : i \in Range(dynamic_configuration[o])} :
              o \in DOMAIN dynamic_configuration \cap DOMAIN g.primary_outputs}

\* validate_dynamic indexes primary_outputs with every output of the dynamic
\* configuration; an output without an entry makes the index panic.
DynamicPanics(g, dynamic_configuration) ==
    ~(DOMAIN dynamic_configuration \subseteq DOMAIN g.primary_outputs)

\* The graph after validate_dynamic has added its edges.
AddDynamic(g, dynamic_configuration) ==
    [g EXCEPT !.edges = @ \cup DynamicEdges(g, dynamic_configuration)]

\* BuildGraph::validate_dynamic: the results it may return.
validate_dynamic(g, dynamic_configuration) ==
    validate(AddDynamic(g, dynamic_configuration))

----------------------------------------------------------------------------
(* run/hash.rs.  A hash is the value hashed (the hasher is injective): the  *)
(* rule command, then one entry per file input, then one per phony input.   *)
(* A random hash carries the number of the random value instead.            *)

Hashed(command, file_entries, phony_entries) ==
    [command |-> command, files |-> file_entries, phony |-> phony_entries, random |-> 0]

RandomHash(r) ==
    [command |-> None, files |-> <<>>, phony |-> <<>>, random |-> r]

\* BuildHash::new.
BuildHash(timestamp_hash, content_hash) ==
    [timestamp |-> timestamp_hash, content |-> content_hash]

OkResult(value) == [ok |-> TRUE, value |-> value, error |-> ""]
ErrResult(error) == [ok |-> FALSE, value |-> RandomHash(0), error |-> error]

\* The partition of spawn_build: an input is a file input when no build
\* outputs it or when the build that outputs it has a rule, a phony input
\* otherwise.
IsFileInput(config, input) ==
    IF input \in DOMAIN config.outputs
    THEN IsSome(config.outputs[input].rule)
    ELSE TRUE

\* HashedInputs with the order-only inputs hashed as well.
HashedInputsWithOrderOnly(build, dynamic_inputs) ==
    build.inputs \o build.order_only_inputs \o dynamic_inputs

\* The inputs spawn_build hashes: build.inputs() chained with the dynamic
\* inputs; the order-only inputs are not among them.
HashedInputs(build, dynamic_inputs) == build.inputs \o dynamic_inputs

FileInputs(config, build, dynamic_inputs) ==
    LET Test(input) == IsFileInput(config, input)
    IN  SelectSeq(HashedInputs(build, dynamic_inputs), Test)

PhonyInputs(config, build, dynamic_inputs) ==
    LET Test(input) == ~IsFileInput(config, input)
    IN  SelectSeq(HashedInputs(build, dynamic_inputs), Test)

\* hash_command with the command left out of the hash.
HashCommandNothing(build) == None

\* hash_command: the command of the rule, or the absence of a rule.
hash_command(build) ==
    IF IsSome(build.rule) THEN Some(build.rule[1].command) ELSE None

\* calculate_fallback_hash with one fixed value in place of the random one.
FallbackHashFixed(build, file_inputs, phony_inputs, r) ==
    IF build.rule = None /\ file_inputs = <<>> /\ phony_inputs = <<>>
    THEN Some(RandomHash(0))
    ELSE None

\* calculate_fallback_hash: a random hash for a build with no rule and no
\* hashed input; r is the number of the random value drawn.
calculate_fallback_hash(build, file_inputs, phony_inputs, r) ==
    IF build.rule = None /\ file_inputs = <<>> /\ phony_inputs = <<>>
    THEN Some(RandomHash(r))
    ELSE None

\* get_build_hash: the stored hash of the build that outputs a phony input.
get_build_hash(config, db, input) ==
    IF input \notin DOMAIN config.outputs THEN ErrResult("InputNotFound")
    ELSE IF config.outputs[input].id \notin DOMAIN db THEN ErrResult("InputNotBuilt")
    ELSE OkResult(db[config.outputs[input].id])

\* The first error of the two loops shared by both hash calculations: a file
\* input that cannot be read, then a phony input without a stored hash.
InputsError(config, fs, db, file_inputs, phony_inputs) ==
    IF \E i \in 1..Len(file_inputs) : ~fs[file_inputs[i]].exists
    THEN Some("Io")
    ELSE IF \E i \in 1..Len(phony_inputs) : ~get_build_hash(config, db, phony_inputs[i]).ok
    THEN LET i == CHOOSE j \in 1..Len(phony_inputs) :
                     /\ ~get_build_hash(config, db, phony_inputs[j]).ok
                     /\ \A k \in 1..(j - 1) : get_build_hash(config, db, phony_inputs[k]).ok
         IN  Some(get_build_hash(config, db, phony_inputs[i]).error)
    ELSE None

\* calculate_timestamp_hash.
calculate_timestamp_hash(config, fs, db, build, file_inputs, phony_inputs, r) ==
    LET fallback == calculate_fallback_hash(build, file_inputs, phony_inputs, r)
        error == InputsError(config, fs, db, file_inputs, phony_inputs)
    IN  IF IsSome(fallback) THEN OkResult(fallback[1])
        ELSE IF IsSome(error) THEN ErrResult(error[1])
        ELSE OkResult(Hashed(
                hash_command(build),
                [i \in 1..Len(file_inputs) |-> fs[file_inputs[i]].mtime],
                [i \in 1..Len(phony_inputs) |->
                    get_build_hash(config, db, phony_inputs[i]).value.timestamp]))

\* calculate_content_hash.
calculate_content_hash(config, fs, db, build, file_inputs, phony_inputs, r) ==
    LET fallback == calculate_fallback_hash(build, file_inputs, phony_inputs, r)
        error == InputsError(config, fs, db, file_inputs, phony_inputs)
    IN  IF IsSome(fallback) THEN OkResult(fallback[1])
        ELSE IF IsSome(error) THEN ErrResult(error[1])
        ELSE OkResult(Hashed(
                hash_command(build),
                [i \in 1..Len(file_inputs) |-> fs[file_inputs[i]].content],
                [i \in 1..Len(phony_inputs) |->
                    get_build_hash(config, db, phony_inputs[i]).value.content]))

----------------------------------------------------------------------------
(* The build files the runs are checked on.  A scenario is the build        *)
(* statements of a build file in order, its default statements, the dynamic *)
(* module files, the source files the builds read and the values of -j the  *)
(* process is started with (one and MaxJobs where two commands can be ready *)
(* at once, MaxJobs where the builds follow one another).                   *)

Scenario(statements, defaults, modules, sources, job_limits) ==
    [statements |-> statements, defaults |-> defaults,
     modules |-> modules, sources |-> sources, job_limits |-> job_limits]

NoModules == [m \in {} |-> <<>>]

\* A build with a rule, without implicit outputs or a dynamic module.
Explicit(outputs, command, inputs, order_only_inputs) ==
    Build(outputs, <<>>, Some(Rule(command, None)), inputs, order_only_inputs, None)

\* A build with the phony rule.
Phony(outputs, inputs) == Build(outputs, <<>>, None, inputs, <<>>, None)

\* build out: cp in
Copy ==
    Scenario(<<Explicit(<<"out">>, "cp", <<"in">>, <<>>)>>, {}, NoModules, {"in"}, {MaxJobs})

\* build all: phony x y / build x: cc / build y: gen, default all
Fan ==
    Scenario(<<Phony(<<"all">>, <<"x", "y">>),
               Build(<<"x">>, <<>>, Some(Rule("cc", Some("CC x"))), <<>>, <<>>, None),
               Explicit(<<"y">>, "gen", <<>>, <<>>)>>,
             {"all"}, NoModules, {}, {1, MaxJobs})

\* build a: ld b || f / build b: cc in
Chain ==
    Scenario(<<Explicit(<<"a">>, "ld", <<"b">>, <<"f">>),
               Explicit(<<"b">>, "cc", <<"in">>, <<>>)>>,
             {"a"}, NoModules, {"in", "f"}, {MaxJobs})

\* build p: phony / build a: r p
PhonyEmpty ==
    Scenario(<<Phony(<<"p">>, <<>>), Explicit(<<"a">>, "r", <<"p">>, <<>>)>>,
             {"a"}, NoModules, {}, {MaxJobs})

\* build p: phony in / build a: r p
PhonyInput ==
    Scenario(<<Phony(<<"p">>, <<"in">>), Explicit(<<"a">>, "r", <<"p">>, <<>>)>>,
             {"a"}, NoModules, {"in"}, {MaxJobs})

\* build a: r in (dyndep = dd) / build x: gen; dd lists a: dyndep | x
Dynamic ==
    Scenario(<<Build(<<"a">>, <<>>, Some(Rule("r", None)), <<"in">>, <<>>, Some("dd")),
               Explicit(<<"x">>, "gen", <<>>, <<>>)>>,
             {"a"}, [m \in {"dd"} |-> [o \in {"a"} |-> <<"x">>]], {"in"}, {MaxJobs})

\* build a: r b / build b: gen (dyndep = dd); dd lists b: dyndep | a
DynamicCycle ==
    Scenario(<<Explicit(<<"a">>, "r", <<"b">>, <<>>),
               Build(<<"b">>, <<>>, Some(Rule("gen", None)), <<>>, <<>>, Some("dd"))>>,
             {"a"}, [m \in {"dd"} |-> [o \in {"b"} |-> <<"a">>]], {}, {MaxJobs})

\* build a | y: r (dyndep = dd) / build x: gen y; dd lists a: dyndep | x
ImplicitOutput ==
    Scenario(<<Build(<<"a">>, <<"y">>, Some(Rule("r", None)), <<>>, <<>>, Some("dd")),
               Explicit(<<"x">>, "gen", <<"y">>, <<>>)>>,
             {"a"}, [m \in {"dd"} |-> [o \in {"a"} |-> <<"x">>]], {}, {MaxJobs})

\* build p s: r (dyndep = dd) / build x: gen; dd lists s: dyndep | x
SecondaryDynamic ==
    Scenario(<<Build(<<"p", "s">>, <<>>, Some(Rule("r", None)), <<>>, <<>>, Some("dd")),
               Explicit(<<"x">>, "gen", <<>>, <<>>)>>,
             {"p"}, [m \in {"dd"} |-> [o \in {"s"} |-> <<"x">>]], {}, {MaxJobs})

\* build a: r (dyndep = dd) / build x: gen; dd lists x: dyndep | in
DynamicNotFound ==
    Scenario(<<Build(<<"a">>, <<>>, Some(Rule("r", None)), <<>>, <<>>, Some("dd")),
               Explicit(<<"x">>, "gen", <<>>, <<>>)>>,
             {"a"}, [m \in {"dd"} |-> [o \in {"x"} |-> <<"in">>]], {"in"}, {MaxJobs})

\* build p s: r in / build t: cat s
Secondary ==
    Scenario(<<Explicit(<<"p", "s">>, "r", <<"in">>, <<>>),
               Explicit(<<"t">>, "cat", <<"s">>, <<>>)>>,
             {"t"}, NoModules, {"in"}, {MaxJobs})

\* build a: r b / build b: r a
Cycle ==
    Scenario(<<Explicit(<<"a">>, "r", <<"b">>, <<>>),
               Explicit(<<"b">>, "r", <<"a">>, <<>>)>>,
             {}, NoModules, {}, {MaxJobs})

\* build a: r in / default zz
MissingDefault ==
    Scenario(<<Explicit(<<"a">>, "r", <<"in">>, <<>>)>>, {"a", "zz"}, NoModules, {"in"}, {MaxJobs})

\* build u: phony p / build v: phony s y / build p s | y: gen, default u v
Shared ==
    Scenario(<<Phony(<<"u">>, <<"p">>), Phony(<<"v">>, <<"s", "y">>),
               Build(<<"p", "s">>, <<"y">>, Some(Rule("gen", None)), <<>>, <<>>, None)>>,
             {"u", "v"}, NoModules, {}, {MaxJobs})

Scenarios ==
    {Copy, Fan, Chain, PhonyEmpty, PhonyInput, Dynamic, DynamicCycle,
     ImplicitOutput, Secondary, Cycle, MissingDefault, SecondaryDynamic,
     DynamicNotFound, Shared}

\* Every path a scenario names.
PathsOf(scenario) ==
    LET builds == Range(scenario.statements)
    IN  scenario.sources
        \cup UNION {Range(b.outputs) \cup Range(b.implicit_outputs)
                    \cup Range(b.inputs) \cup Range(b.order_only_inputs) : b \in builds}
        \cup UNION {UNION {Range(scenario.modules[m][o]) : o \in DOMAIN scenario.modules[m]} :
                       m \in DOMAIN scenario.modules}

----------------------------------------------------------------------------
(* run.rs: the state of one build future and the helpers of the runner.     *)

\* A future inserted into build_futures by trigger_build and not polled yet.
NewFuture ==
    [pc |-> "registered", result |-> None, dynamic_inputs |-> <<>>,
     outputs_exist |-> FALSE, old_hash |-> None,
     timestamp_hash |-> None, content_hash |-> None, status |-> None]

\* trigger_build with the entry inserted over the one that is there.
trigger_build_insert(futures, config, paths) ==
    LET ids == {config.outputs[o].id : o \in paths \cap DOMAIN config.outputs}
    IN  [id \in DOMAIN futures \cup ids |->
            IF id \in ids THEN NewFuture ELSE futures[id]]

\* trigger_build for every path of a set that names a build: the entry of the
\* build's id is inserted unless it is there already.
trigger_build(futures, config, paths) ==
    LET ids == {config.outputs[o].id : o \in paths \cap DOMAIN config.outputs}
    IN  [id \in DOMAIN futures \cup ids |->
            IF id \in DOMAIN futures THEN futures[id] ELSE NewFuture]

\* The first poll of the futures of a set of paths: the first poll of a build
\* future runs spawn_build up to tokio's spawn, which queues the task.
Poll(futures, config, paths) ==
    LET ids == {config.outputs[o].id : o \in paths \cap DOMAIN config.outputs}
    IN  [id \in DOMAIN futures |->
            IF id \in ids /\ futures[id].pc = "registered"
            THEN [futures[id] EXCEPT !.pc = "spawned"]
            ELSE futures[id]]

\* build_input followed by the poll of try_join_all, for the inputs of one wait.
build_input(futures, config, inputs) ==
    Poll(trigger_build(futures, config, Range(inputs)), config, Range(inputs))

\* check_file_existence: the modification time of the path can be read.
check_file_existence(fs, path) == path \in DOMAIN fs /\ fs[path].exists

\* The state of the future build_input returns for an input: the shared
\* future of the build that outputs it, or the existence check of the file.
InputResult(futures, config, fs, input) ==
    IF input \in DOMAIN config.outputs
    THEN futures[config.outputs[input].id].result
    ELSE IF check_file_existence(fs, input) THEN Some("ok") ELSE Some("Io")

\* AllOk with the results of the futures ignored, as join_all would do.
AllCompleted(futures, config, fs, inputs) ==
    \A i \in 1..Len(inputs) : IsSome(InputResult(futures, config, fs, inputs[i]))

\* try_join_all over the futures of the inputs has completed with Ok.
AllOk(futures, config, fs, inputs) ==
    \A i \in 1..Len(inputs) : InputResult(futures, config, fs, inputs[i]) = Some("ok")

\* The errors try_join_all over the futures of the inputs may complete with.
InputErrors(futures, config, fs, inputs) ==
    {InputResult(futures, config, fs, inputs[i])[1] :
        i \in {j \in 1..Len(inputs) :
                  /\ IsSome(InputResult(futures, config, fs, inputs[j]))
                  /\ InputResult(futures, config, fs, inputs[j]) /= Some("ok")}}

\* StaticInputs with the order-only inputs forgotten.
StaticInputsWithoutOrderOnly(build) == build.inputs

\* The inputs the first wait of spawn_build awaits.
StaticInputs(build) == build.inputs \o build.order_only_inputs

\* FindDynamicInputs with the primary output as the only output looked up.
FindDynamicInputsOfPrimary(build, dynamic_configuration) ==
    IF build.outputs[1] \in DOMAIN dynamic_configuration
    THEN Some(dynamic_configuration[build.outputs[1]])
    ELSE None

\* The dynamic inputs of spawn_build: the inputs the dynamic configuration
\* lists for the first output of the build that it has an entry for.
FindDynamicInputs(build, dynamic_configuration) ==
    LET found == {i \in 1..Len(build.outputs) :
                     build.outputs[i] \in DOMAIN dynamic_configuration}
    IN  IF found = {} THEN None
        ELSE Some(dynamic_configuration[
                 build.outputs[CHOOSE i \in found : \A j \in found : i <= j]])

\* The result of a finished build future.
Finish(future, result) == [future EXCEPT !.pc = "done", !.result = Some(result)]

\* What a command that exits does to the file system: it writes the outputs
\* and implicit outputs of its build with a new modification time, or nothing.
WriteOutputs(fs, build, content) ==
    [p \in DOMAIN fs |->
        IF p \in Range(build.outputs) \cup Range(build.implicit_outputs)
        THEN [exists |-> TRUE, mtime |-> fs[p].mtime + 1, content |-> content]
        ELSE fs[p]]

\* The builds run awaits at its root: those of the default outputs.
RootIds ==
    {configuration.outputs[o].id :
        o \in configuration.default_outputs \cap DOMAIN configuration.outputs}

TheBuild(id) == BuildOf(configuration, id)

\* compile() is not running.
NoCompiler ==
    [modules |-> <<>>, stack |-> <<>>, outputs |-> <<>>, default_outputs |-> {},
     built |-> {}, returned |-> None, result |-> None, argument |-> None]

\* read_modules() is not running.
NoReader ==
    [sources |-> <<>>, pc |-> "none", paths |-> <<>>, path |-> None,
     modules |-> {}, dependencies |-> <<>>, result |-> None]

\* Nothing reported yet: no error output, no exit code, no message.
NoReport ==
    [output |-> "", quiet |-> FALSE, log_prefix |-> None,
     exit_code |-> None, stderr |-> None]

\* DatabaseSet that stores nothing.
DatabaseSetNothing(db, id, hash) == db

\* The database after set(id, hash).
DatabaseSet(db, id, hash) ==
    [k \in DOMAIN db \cup {id} |-> IF k = id THEN hash ELSE db[k]]

EmptyGraph == [edges |-> {}, primary_outputs |-> [o \in {} |-> o]]

----------------------------------------------------------------------------
(* The initial state: a build file is on disk, each source file exists or   *)
(* not, the database is new and the process has not run yet.                *)

\* The state a process is first started in, on one of the build files given.
InitOf(scenarios) ==
    \E scenario \in scenarios :
    \E missing \in {m \in SUBSET scenario.sources : Cardinality(m) <= 1} :
        /\ configuration = Compile(scenario.statements, scenario.defaults)
        /\ dynamic_files = scenario.modules
        /\ job_limit \in scenario.job_limits
        /\ files = [p \in PathsOf(scenario) |->
                      [exists |-> p \in scenario.sources \ missing,
                       mtime |-> 0, content |-> "old"]]
        /\ database = [id \in {} |-> BuildHash(RandomHash(0), RandomHash(0))]
        /\ build_futures = [id \in {} |-> NewFuture]
        /\ graph = EmptyGraph
        /\ permits = 0
        /\ run_pc = "exited"
        /\ run_result = None
        /\ flushed = FALSE
        /\ run_count = 0
        /\ executed = {}
        /\ stored = {}
        /\ random = 0
        /\ history = [prev_ok |-> FALSE, changed |-> FALSE, outputs_present |-> FALSE,
                      skipped |-> {},
                      path |-> "", change |-> ""]
        /\ validation = None
        /\ console = <<>>
        /\ console_lock = {}
        /\ report = NoReport
        /\ compiler = NoCompiler
        /\ reader = NoReader

Init == InitOf(Scenarios)

----------------------------------------------------------------------------
(* run(): run.rs lines 27-73.                                               *)

\* TriggeredBeforeMissing with the inserted futures polled as well.
TriggeredAndPolledBeforeMissing ==
    {Poll(trigger_build([id \in {} |-> NewFuture], configuration, found),
          configuration, found) :
        found \in SUBSET (configuration.default_outputs \cap DOMAIN configuration.outputs)}

\* The futures trigger_build has inserted when run returns
\* DefaultOutputNotFound: those of the default outputs iterated before the
\* missing one, in the arbitrary order of the set.
TriggeredBeforeMissing ==
    {trigger_build([id \in {} |-> NewFuture], configuration, found) :
        found \in SUBSET (configuration.default_outputs \cap DOMAIN configuration.outputs)}

\* The process starts and run() goes from the construction of the graph to
\* its first suspension, the root try_join_all.
RunBeginWithin(runs) ==
    /\ run_pc = "exited"
    /\ run_count < runs
    /\ run_count' = run_count + 1
    /\ executed' = {}
    /\ stored' = {}
    /\ flushed' = FALSE
    /\ LET new_graph == BuildGraphNew(configuration.outputs)
       IN  IF validate(new_graph) /= {Ok}
           THEN /\ run_pc' = "returned"
                /\ run_result' = Some("Validation")
                /\ build_futures' = [id \in {} |-> NewFuture]
                /\ graph' = new_graph
                /\ permits' = 0
                /\ report' = NoReport
           ELSE IF ~(configuration.default_outputs \subseteq DOMAIN configuration.outputs)
           THEN /\ run_pc' = "returned"
                /\ run_result' = Some("DefaultOutputNotFound")
                /\ build_futures' \in TriggeredBeforeMissing
                /\ graph' = new_graph
                /\ permits' = job_limit
                /\ \E output \in configuration.default_outputs
                                      \ DOMAIN configuration.outputs :
                      report' = [NoReport EXCEPT !.output = output]
           ELSE /\ run_pc' = "await"
                /\ run_result' = None
                /\ build_futures' =
                       Poll(trigger_build([id \in {} |-> NewFuture], configuration,
                                          configuration.default_outputs),
                            configuration, configuration.default_outputs)
                /\ graph' = new_graph
                /\ permits' = job_limit
                /\ report' = NoReport
    /\ console' = <<>>
    /\ console_lock' = {}
    /\ UNCHANGED <<configuration, dynamic_files, job_limit, files, database,
                   random, history, validation, compiler, reader>>

RunBegin == RunBeginWithin(MaxRuns)

\* The root try_join_all completes with Ok: every root future has succeeded.
RunJoinOk ==
    /\ run_pc = "await"
    /\ \A id \in RootIds : build_futures[id].result = Some("ok")
    /\ run_pc' = "returned"
    /\ run_result' = Some("ok")
    /\ UNCHANGED <<console, console_lock, report, configuration, dynamic_files,
                   job_limit, files, database, build_futures, graph, permits, flushed,
                   run_count, executed, random, history, validation, stored, compiler, reader>>

\* RunJoinErr returning the error at once, without the flush.
RunJoinErrWithoutFlush ==
    /\ run_pc = "await"
    /\ \E id \in RootIds :
          /\ IsSome(build_futures[id].result)
          /\ build_futures[id].result /= Some("ok")
          /\ run_result' = build_futures[id].result
    /\ run_pc' = "returned"
    /\ UNCHANGED <<console, console_lock, report, configuration, dynamic_files,
                   job_limit, files, database, build_futures, graph, permits, flushed,
                   run_count, executed, random, history, validation, stored, compiler, reader>>

\* The root try_join_all completes with the error of a failed root future.
RunJoinErr ==
    /\ run_pc = "await"
    /\ \E id \in RootIds :
          /\ IsSome(build_futures[id].result)
          /\ build_futures[id].result /= Some("ok")
          /\ run_result' = build_futures[id].result
    /\ run_pc' = "flush"
    /\ UNCHANGED <<console, console_lock, report, configuration, dynamic_files,
                   job_limit, files, database, build_futures, graph, permits, flushed,
                   run_count, executed, random, history, validation, stored, compiler, reader>>

\* The error path flushes the database and returns the error.
RunFlush ==
    /\ run_pc = "flush"
    /\ flushed' = TRUE
    /\ run_pc' = "returned"
    /\ UNCHANGED <<console, console_lock, report, configuration, dynamic_files,
                   job_limit, files, database, build_futures, graph, permits,
                   run_result, run_count, executed, random, history, validation,
                   stored, compiler, reader>>

----------------------------------------------------------------------------
(* spawn_build: run.rs lines 92-197, one action per stretch between two     *)
(* suspensions at which other tasks can change what the build reads.        *)

\* The spawned task starts: build_input for every input and order-only
\* input, then the first poll of try_join_all over their futures.
StartBuild(id) ==
    /\ id \in DOMAIN build_futures
    /\ build_futures[id].pc = "spawned"
    /\ build_futures' =
          [build_input(build_futures, configuration, StaticInputs(TheBuild(id)))
              EXCEPT ![id].pc = "inputs"]
    /\ UNCHANGED <<console, console_lock, report, configuration, dynamic_files,
                   job_limit, files, database, graph, permits, run_pc, run_result,
                   flushed, run_count, executed, random, history, validation, stored, compiler, reader>>

\* A try_join_all of the build completes with the error of one of the
\* awaited futures, and the build future completes with that error.
FailInputs(id) ==
    /\ id \in DOMAIN build_futures
    /\ build_futures[id].pc \in {"inputs", "dynamic"}
    /\ LET awaited == IF build_futures[id].pc = "inputs"
                      THEN StaticInputs(TheBuild(id))
                      ELSE build_futures[id].dynamic_inputs
       IN  \E error \in InputErrors(build_futures, configuration, files, awaited) :
              build_futures' = [build_futures EXCEPT ![id] = Finish(@, error)]
    /\ UNCHANGED <<console, console_lock, report, configuration, dynamic_files,
                   job_limit, files, database, graph, permits, run_pc, run_result,
                   flushed, run_count, executed, random, history, validation, stored, compiler, reader>>

\* The first try_join_all completes with Ok.  The dynamic module, if the
\* build has one, is read and compiled, validate_dynamic runs under the graph
\* lock, the dynamic inputs are looked up and build_input is called for each,
\* up to the first poll of the second try_join_all.
ResolveDynamic(id) ==
    /\ id \in DOMAIN build_futures
    /\ build_futures[id].pc = "inputs"
    /\ AllOk(build_futures, configuration, files, StaticInputs(TheBuild(id)))
    /\ LET build == TheBuild(id)
       IN  IF build.dynamic_module = None
           THEN /\ build_futures' = [build_futures EXCEPT ![id].pc = "dynamic"]
                /\ graph' = graph
           ELSE IF build.dynamic_module[1] \notin DOMAIN dynamic_files
           THEN /\ build_futures' = [build_futures EXCEPT ![id] = Finish(@, "Io")]
                /\ graph' = graph
           ELSE LET dynamic_configuration == dynamic_files[build.dynamic_module[1]]
                    dynamic_inputs == FindDynamicInputs(build, dynamic_configuration)
                IN  IF DynamicPanics(graph, dynamic_configuration)
                    THEN \* The task panics inside validate_dynamic, after the
                         \* edges of the outputs iterated before the panic.
                         /\ \E kept \in SUBSET DOMAIN dynamic_configuration :
                               graph' = AddDynamic(graph,
                                   [o \in kept |-> dynamic_configuration[o]])
                         /\ build_futures' =
                               [build_futures EXCEPT ![id] = Finish(@, "Join")]
                    ELSE /\ graph' = AddDynamic(graph, dynamic_configuration)
                         /\ IF validate(graph') /= {Ok}
                            THEN build_futures' =
                                    [build_futures EXCEPT ![id] = Finish(@, "Validation")]
                            ELSE IF dynamic_inputs = None
                            THEN build_futures' =
                                    [build_futures EXCEPT
                                        ![id] = Finish(@, "DynamicDependencyNotFound")]
                            ELSE build_futures' =
                                    [build_input(build_futures, configuration,
                                                 dynamic_inputs[1])
                                        EXCEPT ![id].pc = "dynamic",
                                               ![id].dynamic_inputs = dynamic_inputs[1]]
    /\ UNCHANGED <<console, console_lock, report, configuration, dynamic_files,
                   job_limit, files, database, permits, run_pc, run_result, flushed,
                   run_count, executed, random, history, validation, stored, compiler, reader>>

\* TimestampUpToDate with the first return of spawn_build never taken.
TimestampNeverUpToDate(outputs_exist, timestamp_hash, old_hash) == FALSE

\* The first return of spawn_build: the outputs exist and the timestamp hash
\* is the stored one.
TimestampUpToDate(outputs_exist, timestamp_hash, old_hash) ==
    outputs_exist /\ IsSome(old_hash) /\ timestamp_hash = old_hash[1].timestamp

\* ContentUpToDate with the existence of the outputs forgotten.
ContentUpToDateWithoutOutputs(outputs_exist, content_hash, old_hash) ==
    IsSome(old_hash) /\ content_hash = old_hash[1].content

\* ContentUpToDate with the comparison of the hashes forgotten.
ContentUpToDateWithoutHash(outputs_exist, content_hash, old_hash) ==
    outputs_exist /\ IsSome(old_hash)

\* The second return of spawn_build: the outputs exist and the content hash
\* is the stored one.
ContentUpToDate(outputs_exist, content_hash, old_hash) ==
    outputs_exist /\ IsSome(old_hash) /\ content_hash = old_hash[1].content

\* Decide with the hashes stored also on the return by the content match.
DecideStoringOnSkip(id) ==
    /\ id \in DOMAIN build_futures
    /\ build_futures[id].pc = "dynamic"
    /\ AllOk(build_futures, configuration, files, build_futures[id].dynamic_inputs)
    /\ LET build == TheBuild(id)
           dynamic_inputs == build_futures[id].dynamic_inputs
           outputs_exist ==
               \A path \in Range(build.outputs) \cup Range(build.implicit_outputs) :
                   check_file_existence(files, path)
           old_hash == IF id \in DOMAIN database THEN Some(database[id]) ELSE None
           file_inputs == FileInputs(configuration, build, dynamic_inputs)
           phony_inputs == PhonyInputs(configuration, build, dynamic_inputs)
           fallback == IsSome(calculate_fallback_hash(build, file_inputs, phony_inputs, 0))
           timestamp_hash ==
               calculate_timestamp_hash(configuration, files, database, build,
                                        file_inputs, phony_inputs, random + 1)
           content_hash ==
               calculate_content_hash(configuration, files, database, build,
                                      file_inputs, phony_inputs, random + 2)
           seen == [build_futures[id] EXCEPT
                       !.outputs_exist = outputs_exist, !.old_hash = old_hash]
       IN  IF ~timestamp_hash.ok
           THEN /\ build_futures' =
                      [build_futures EXCEPT ![id] = Finish(seen, timestamp_hash.error)]
                /\ UNCHANGED <<database, random, stored>>
           ELSE IF TimestampUpToDate(outputs_exist, timestamp_hash.value, old_hash)
           THEN /\ build_futures' =
                      [build_futures EXCEPT ![id] =
                          Finish([seen EXCEPT !.timestamp_hash = Some(timestamp_hash.value)],
                                 "ok")]
                /\ random' = IF fallback THEN random + 1 ELSE random
                /\ UNCHANGED <<database, stored>>
           ELSE LET hashed == [seen EXCEPT
                                  !.timestamp_hash = Some(timestamp_hash.value),
                                  !.content_hash = Some(content_hash.value)]
                IN  /\ random' = IF fallback THEN random + 2 ELSE random
                    /\ IF ~content_hash.ok
                       THEN /\ build_futures' =
                                  [build_futures EXCEPT
                                      ![id] = Finish(seen, content_hash.error)]
                            /\ UNCHANGED <<database, stored>>
                       ELSE IF ContentUpToDate(outputs_exist, content_hash.value, old_hash)
                       THEN /\ build_futures' =
                                  [build_futures EXCEPT ![id] = Finish(hashed, "ok")]
                            /\ database' =
                                  DatabaseSet(database, id,
                                      BuildHash(timestamp_hash.value, content_hash.value))
                            /\ stored' = stored \cup {id}
                       ELSE IF IsSome(build.rule)
                       THEN /\ build_futures' =
                                  [build_futures EXCEPT ![id] =
                                      [hashed EXCEPT !.pc = "permit"]]
                            /\ UNCHANGED <<database, stored>>
                       ELSE /\ build_futures' =
                                  [build_futures EXCEPT ![id] = Finish(hashed, "ok")]
                            /\ database' =
                                  DatabaseSet(database, id,
                                      BuildHash(timestamp_hash.value, content_hash.value))
                            /\ stored' = stored \cup {id}
    /\ UNCHANGED <<console, console_lock, report, configuration, dynamic_files,
                   job_limit, files, graph, permits, run_pc, run_result, flushed,
                   run_count, executed, history, validation, compiler, reader>>

\* The second try_join_all completes with Ok: the existence of the outputs,
\* the stored hash, the two hashes and the decision between returning,
\* running the rule and, for a build without a rule, storing the hash.
Decide(id) ==
    /\ id \in DOMAIN build_futures
    /\ build_futures[id].pc = "dynamic"
    /\ AllOk(build_futures, configuration, files, build_futures[id].dynamic_inputs)
    /\ LET build == TheBuild(id)
           dynamic_inputs == build_futures[id].dynamic_inputs
           outputs_exist ==
               \A path \in Range(build.outputs) \cup Range(build.implicit_outputs) :
                   check_file_existence(files, path)
           old_hash == IF id \in DOMAIN database THEN Some(database[id]) ELSE None
           file_inputs == FileInputs(configuration, build, dynamic_inputs)
           phony_inputs == PhonyInputs(configuration, build, dynamic_inputs)
           fallback == IsSome(calculate_fallback_hash(build, file_inputs, phony_inputs, 0))
           timestamp_hash ==
               calculate_timestamp_hash(configuration, files, database, build,
                                        file_inputs, phony_inputs, random + 1)
           content_hash ==
               calculate_content_hash(configuration, files, database, build,
                                      file_inputs, phony_inputs, random + 2)
           seen == [build_futures[id] EXCEPT
                       !.outputs_exist = outputs_exist, !.old_hash = old_hash]
       IN  IF ~timestamp_hash.ok
           THEN /\ build_futures' =
                      [build_futures EXCEPT ![id] = Finish(seen, timestamp_hash.error)]
                /\ UNCHANGED <<database, random, stored>>
           ELSE IF TimestampUpToDate(outputs_exist, timestamp_hash.value, old_hash)
           THEN /\ build_futures' =
                      [build_futures EXCEPT ![id] =
                          Finish([seen EXCEPT !.timestamp_hash = Some(timestamp_hash.value)],
                                 "ok")]
                /\ random' = IF fallback THEN random + 1 ELSE random
                /\ UNCHANGED <<database, stored>>
           ELSE LET hashed == [seen EXCEPT
                                  !.timestamp_hash = Some(timestamp_hash.value),
                                  !.content_hash = Some(content_hash.value)]
                IN  /\ random' = IF fallback THEN random + 2 ELSE random
                    /\ IF ~content_hash.ok
                       THEN /\ build_futures' =
                                  [build_futures EXCEPT
                                      ![id] = Finish(seen, content_hash.error)]
                            /\ UNCHANGED <<database, stored>>
                       ELSE IF ContentUpToDate(outputs_exist, content_hash.value, old_hash)
                       THEN /\ build_futures' =
                                  [build_futures EXCEPT ![id] = Finish(hashed, "ok")]
                            /\ UNCHANGED <<database, stored>>
                       ELSE IF IsSome(build.rule)
                       THEN /\ build_futures' =
                                  [build_futures EXCEPT ![id] =
                                      [hashed EXCEPT !.pc = "permit"]]
                            /\ UNCHANGED <<database, stored>>
                       ELSE /\ build_futures' =
                                  [build_futures EXCEPT ![id] = Finish(hashed, "ok")]
                            /\ database' =
                                  DatabaseSet(database, id,
                                      BuildHash(timestamp_hash.value, content_hash.value))
                            /\ stored' = stored \cup {id}
    /\ UNCHANGED <<console, console_lock, report, configuration, dynamic_files,
                   job_limit, files, graph, permits, run_pc, run_result, flushed,
                   run_count, executed, history, validation, compiler, reader>>

----------------------------------------------------------------------------
(* run_rule: run.rs lines 245-299.                                          *)

\* AcquirePermit without the wait for a free permit.
AcquirePermitWithoutWait(id) ==
    /\ id \in DOMAIN build_futures
    /\ build_futures[id].pc = "permit"
    /\ permits' = permits - 1
    /\ executed' = executed \cup {id}
    /\ build_futures' = [build_futures EXCEPT ![id].pc = "command"]
    /\ UNCHANGED <<console, console_lock, report, configuration, dynamic_files,
                   job_limit, files, database, graph, run_pc, run_result, flushed,
                   run_count, random, history, validation, stored, compiler, reader>>

\* The permit is acquired and the command is started in the same poll.
AcquirePermit(id) ==
    /\ id \in DOMAIN build_futures
    /\ build_futures[id].pc = "permit"
    /\ permits > 0
    /\ permits' = permits - 1
    /\ executed' = executed \cup {id}
    /\ build_futures' = [build_futures EXCEPT ![id].pc = "command"]
    /\ UNCHANGED <<console, console_lock, report, configuration, dynamic_files,
                   job_limit, files, database, graph, run_pc, run_result, flushed,
                   run_count, random, history, validation, stored, compiler, reader>>

\* The writes of the second future of try_join!: the description of the rule
\* and a newline, if the rule has a description.
DescriptionWrites(id) ==
    IF IsSome(TheBuild(id).rule[1].description)
    THEN <<[id |-> id, part |-> "description"], [id |-> id, part |-> "newline"]>>
    ELSE <<>>

\* The writes of run_rule after try_join!: stdout, then stderr of the command.
OutputWrites(id) ==
    <<[id |-> id, part |-> "stdout"], [id |-> id, part |-> "stderr"]>>

\* LockConsole with the console locked before the permit is acquired.
LockConsoleBeforePermit(id) ==
    /\ id \in DOMAIN build_futures
    /\ build_futures[id].pc \in {"permit", "command", "finish"}
    /\ id \notin console_lock
    /\ console_lock = {}
    /\ console_lock' = console_lock \cup {id}
    /\ console' = console \o DescriptionWrites(id)
    /\ UNCHANGED <<report, configuration, dynamic_files, job_limit, files, database,
                   build_futures, graph, permits, run_pc, run_result, flushed,
                   run_count, executed, stored, random, history, validation, compiler, reader>>

\* LockConsole without the wait for the guard to be free.
LockConsoleWithoutWait(id) ==
    /\ id \in DOMAIN build_futures
    /\ build_futures[id].pc \in {"command", "finish"}
    /\ id \notin console_lock
    /\ console_lock' = console_lock \cup {id}
    /\ console' = console \o DescriptionWrites(id)
    /\ UNCHANGED <<report, configuration, dynamic_files, job_limit, files, database,
                   build_futures, graph, permits, run_pc, run_result, flushed,
                   run_count, executed, stored, random, history, validation, compiler, reader>>

\* The second future of try_join!, polled along with the command: the console
\* mutex is locked once it is free and the description is written; the guard
\* is kept until run_rule returns.
LockConsole(id) ==
    /\ id \in DOMAIN build_futures
    /\ build_futures[id].pc \in {"command", "finish"}
    /\ id \notin console_lock
    /\ console_lock = {}
    /\ console_lock' = console_lock \cup {id}
    /\ console' = console \o DescriptionWrites(id)
    /\ UNCHANGED <<report, configuration, dynamic_files, job_limit, files, database,
                   build_futures, graph, permits, run_pc, run_result, flushed,
                   run_count, executed, stored, random, history, validation, compiler, reader>>

\* The command exits, with success or not, having written its outputs or
\* not, and the permit is dropped.
CommandExit(id) ==
    /\ id \in DOMAIN build_futures
    /\ build_futures[id].pc = "command"
    /\ permits' = permits + 1
    /\ \E success \in BOOLEAN :
          build_futures' = [build_futures EXCEPT ![id].pc = "finish",
                                                 ![id].status = Some(success)]
    /\ \/ files' = files
       \/ \E content \in Contents :
             files' = WriteOutputs(files, TheBuild(id), content)
    /\ UNCHANGED <<console, console_lock, report, configuration, dynamic_files,
                   job_limit, database, graph, run_pc, run_result, flushed, run_count,
                   executed, random, history, validation, stored, compiler, reader>>

\* FinishRule with the set of the database forgotten.
FinishRuleWithoutSet(id) ==
    /\ id \in DOMAIN build_futures
    /\ build_futures[id].pc = "finish"
    /\ id \in console_lock
    /\ console' = console \o OutputWrites(id)
    /\ console_lock' = console_lock \ {id}
    /\ IF build_futures[id].status = Some(TRUE)
       THEN build_futures' = [build_futures EXCEPT ![id] = Finish(@, "ok")]
       ELSE build_futures' = [build_futures EXCEPT ![id] = Finish(@, "Build")]
    /\ UNCHANGED <<report, configuration, dynamic_files, job_limit, files, graph,
                   permits, run_pc, run_result, flushed, run_count, executed, random,
                   history, validation, database, stored, compiler, reader>>

\* try_join! has both the output of the command and the guard of the
\* console: stdout and stderr are written, the guard is dropped and run_rule
\* returns Err(Build) for a failed exit status; otherwise spawn_build stores
\* the hashes and returns Ok.
FinishRule(id) ==
    /\ id \in DOMAIN build_futures
    /\ build_futures[id].pc = "finish"
    /\ id \in console_lock
    /\ console' = console \o OutputWrites(id)
    /\ console_lock' = console_lock \ {id}
    /\ IF build_futures[id].status = Some(TRUE)
       THEN /\ database' =
                  DatabaseSet(database, id,
                      BuildHash(build_futures[id].timestamp_hash[1],
                                build_futures[id].content_hash[1]))
            /\ stored' = stored \cup {id}
            /\ build_futures' = [build_futures EXCEPT ![id] = Finish(@, "ok")]
       ELSE /\ UNCHANGED <<database, stored>>
            /\ build_futures' = [build_futures EXCEPT ![id] = Finish(@, "Build")]
    /\ UNCHANGED <<report, configuration, dynamic_files, job_limit, files, graph,
                   permits, run_pc, run_result, flushed, run_count, executed, random,
                   history, validation, compiler, reader>>

----------------------------------------------------------------------------
(* The process between two runs: main.rs lines 36-68 and the environment.   *)

\* The procedure of the build has returned Ok by the second return of
\* spawn_build, the match of the content hash.
SkippedByContent(id) ==
    /\ build_futures[id].pc = "done"
    /\ build_futures[id].result = Some("ok")
    /\ IsSome(build_futures[id].content_hash)
    /\ ContentUpToDate(build_futures[id].outputs_exist,
                       build_futures[id].content_hash[1],
                       build_futures[id].old_hash)

\* Every output and implicit output of every build with a rule that has a
\* future exists.
OutputsPresent ==
    \A id \in DOMAIN build_futures :
        IsSome(TheBuild(id).rule) =>
            \A path \in Range(TheBuild(id).outputs) \cup Range(TheBuild(id).implicit_outputs) :
                check_file_existence(files, path)

\* The values of --log-prefix main is started with.
LogPrefixes == {None, Some("turtle: ")}

\* ShownAlways: the message is written whatever --quiet says.
ShownAlways(quiet, error) == TRUE

\* main writes the message unless --quiet is given and the error is Build.
Shown(quiet, error) == ~(quiet /\ error = "Build")

\* format!("{}{}\n", prefix, error): the pieces of the message, the prefix
\* being empty when there is none; the error is displayed with the output it
\* names.
Message(log_prefix, error, output) ==
    <<IF IsSome(log_prefix) THEN log_prefix[1] ELSE "",
      [error |-> error, output |-> output],
      "\n">>

\* run has returned to execute and main: on an error the message is written
\* to stderr under the console mutex unless it is not shown, and the process
\* exits with 1; otherwise main returns.  The tasks still running end with
\* the process.  The database keeps what was set.
Exit ==
    /\ run_pc = "returned"
    /\ run_pc' = "exited"
    /\ history' = [prev_ok |-> run_result = Some("ok"),
                   changed |-> FALSE,
                   outputs_present |-> OutputsPresent,
                   skipped |-> {id \in DOMAIN build_futures : SkippedByContent(id)},
                   path |-> "", change |-> ""]
    /\ build_futures' = [id \in {} |-> NewFuture]
    /\ graph' = EmptyGraph
    /\ permits' = 0
    /\ console' = <<>>
    /\ console_lock' = {}
    /\ IF run_result = Some("ok")
       THEN report' = [report EXCEPT !.exit_code = Some(0)]
       ELSE \E quiet \in BOOLEAN :
            \E log_prefix \in LogPrefixes :
               /\ Shown(quiet, run_result[1]) => console_lock = {}
               /\ report' = [report EXCEPT
                                !.quiet = quiet,
                                !.log_prefix = log_prefix,
                                !.exit_code = Some(1),
                                !.stderr = IF Shown(quiet, run_result[1])
                                           THEN Some(Message(log_prefix, run_result[1],
                                                             report.output))
                                           ELSE None]
    /\ UNCHANGED <<configuration, dynamic_files, job_limit, files, database,
                   run_result, flushed, run_count, executed, random, validation, stored, compiler, reader>>

\* Between two runs at most one file is changed: it is touched, rewritten with another content, or
\* removed.
ChangeFileWithin(path, runs) ==
    /\ run_pc = "exited"
    /\ run_count \in 1..(runs - 1)
    /\ ~history.changed
    /\ path \in DOMAIN files
    /\ files[path].exists
    /\ \/ /\ files' = [files EXCEPT ![path].mtime = @ + 1]
          /\ history' = [history EXCEPT !.changed = TRUE, !.path = path,
                                        !.change = "touch"]
       \/ \E content \in Contents \ {files[path].content} :
             /\ files' = [files EXCEPT ![path].mtime = @ + 1, ![path].content = content]
             /\ history' = [history EXCEPT !.changed = TRUE, !.path = path,
                                           !.change = "rewrite"]
       \/ /\ files' = [files EXCEPT ![path].exists = FALSE]
          /\ history' = [history EXCEPT !.changed = TRUE, !.path = path,
                                        !.change = "remove"]
    /\ UNCHANGED <<console, console_lock, report, configuration, dynamic_files,
                   job_limit, database, build_futures, graph, permits, run_pc,
                   run_result, flushed, run_count, executed, random, validation,
                   stored, compiler, reader>>

ChangeFile(path) == ChangeFileWithin(path, MaxRuns)

\* The command the rule of a build is given when the build file is edited.
EditedCommand == "edited"

\* The configuration compiled from the build file after the command of the
\* rule of one build has been replaced.
WithCommand(config, id, command) ==
    LET edited(build) ==
            IF build.id = id /\ IsSome(build.rule)
            THEN [build EXCEPT !.rule = Some(Rule(command, build.rule[1].description))]
            ELSE build
    IN  [config EXCEPT !.outputs = [o \in DOMAIN config.outputs |->
                                      edited(config.outputs[o])]]

\* Between two runs the build file is edited instead of a file of the tree:
\* the rule of one build gets another command and nothing else changes.
ChangeCommand(id) ==
    /\ run_pc = "exited"
    /\ run_count \in 1..(MaxRuns - 1)
    /\ ~history.changed
    /\ id \in IdsOf(configuration)
    /\ IsSome(BuildOf(configuration, id).rule)
    /\ BuildOf(configuration, id).rule[1].command /= EditedCommand
    /\ configuration' = WithCommand(configuration, id, EditedCommand)
    /\ history' = [history EXCEPT !.changed = TRUE,
                                  !.path = BuildOf(configuration, id).outputs[1],
                                  !.change = "command"]
    /\ UNCHANGED <<console, console_lock, report, dynamic_files, files,
                   job_limit, database, build_futures, graph, permits, run_pc,
                   run_result, flushed, run_count, executed, random, validation,
                   stored, compiler, reader>>

----------------------------------------------------------------------------

Next ==
    \/ RunBegin
    \/ RunJoinOk
    \/ RunJoinErr
    \/ RunFlush
    \/ \E id \in DOMAIN build_futures : StartBuild(id)
    \/ \E id \in DOMAIN build_futures : FailInputs(id)
    \/ \E id \in DOMAIN build_futures : ResolveDynamic(id)
    \/ \E id \in DOMAIN build_futures : Decide(id)
    \/ \E id \in DOMAIN build_futures : AcquirePermit(id)
    \/ \E id \in DOMAIN build_futures : LockConsole(id)
    \/ \E id \in DOMAIN build_futures : CommandExit(id)
    \/ \E id \in DOMAIN build_futures : FinishRule(id)
    \/ Exit
    \/ \E path \in DOMAIN files : ChangeFile(path)

Spec == Init /\ [][Next]_vars

\* A step of the process: of run, of the task of a build, or the exit.  The
\* start of the process and the changes of the files are steps of the user.
ProcessStep ==
    \/ RunJoinOk
    \/ RunJoinErr
    \/ RunFlush
    \/ \E id \in DOMAIN build_futures : StartBuild(id)
    \/ \E id \in DOMAIN build_futures : FailInputs(id)
    \/ \E id \in DOMAIN build_futures : ResolveDynamic(id)
    \/ \E id \in DOMAIN build_futures : Decide(id)
    \/ \E id \in DOMAIN build_futures : AcquirePermit(id)
    \/ \E id \in DOMAIN build_futures : LockConsole(id)
    \/ \E id \in DOMAIN build_futures : CommandExit(id)
    \/ \E id \in DOMAIN build_futures : FinishRule(id)
    \/ Exit

\* The runs under the scheduling of the runtime: a task that is ready is
\* polled, a command that was started exits, a file operation returns, so
\* the process does not stop while one of its steps is possible.
FairSpec == Spec /\ WF_vars(ProcessStep)

\* The runs of the build files whose rules are edited between the runs.
EditScenarios == {Copy, Chain, Dynamic}

EditInit == InitOf(EditScenarios)

EditNext ==
    \/ Next
    \/ \E id \in IdsOf(configuration) : ChangeCommand(id)

EditSpec == EditInit /\ [][EditNext]_vars

\* The runs of two build files with one run more, for what a run leaves to
\* the run after the next.
LongRuns == MaxRuns + 1

LongScenarios == {Copy, Dynamic}

LongInit == InitOf(LongScenarios)

LongNext ==
    \/ RunBeginWithin(LongRuns)
    \/ RunJoinOk
    \/ RunJoinErr
    \/ RunFlush
    \/ \E id \in DOMAIN build_futures : StartBuild(id)
    \/ \E id \in DOMAIN build_futures : FailInputs(id)
    \/ \E id \in DOMAIN build_futures : ResolveDynamic(id)
    \/ \E id \in DOMAIN build_futures : Decide(id)
    \/ \E id \in DOMAIN build_futures : AcquirePermit(id)
    \/ \E id \in DOMAIN build_futures : LockConsole(id)
    \/ \E id \in DOMAIN build_futures : CommandExit(id)
    \/ \E id \in DOMAIN build_futures : FinishRule(id)
    \/ Exit
    \/ \E path \in DOMAIN files : ChangeFileWithin(path, LongRuns)

LongSpec == LongInit /\ [][LongNext]_vars

----------------------------------------------------------------------------
(* The graph harness: BuildGraph::new, validate and validate_dynamic on     *)
(* every graph of three builds, as the unit tests of build_graph.rs call    *)
(* them (validate_builds, validate_with_dynamic_configuration).             *)

RECURSIVE SetToSeq(_)
SetToSeq(S) ==
    IF S = {} THEN <<>>
    ELSE LET x == CHOOSE y \in S : TRUE IN <<x>> \o SetToSeq(S \ {x})

SubsetsUpTo(S, n) == {T \in SUBSET S : Cardinality(T) <= n}

HarnessPaths == {"a", "b", "c", "s", "y"}

\* The panic of validate_dynamic, as the result of the call.
Panic == [ok |-> FALSE, paths |-> {}]

GraphInit ==
    \E outputs1 \in {<<"a">>, <<"a", "s">>} :
    \E inputs1 \in SubsetsUpTo(HarnessPaths, MaxInputs) :
    \E order_only1 \in SUBSET {"b"} :
    \E inputs2 \in SubsetsUpTo(HarnessPaths, MaxInputs) :
    \E implicit3 \in {<<>>, <<"y">>} :
    \E inputs3 \in SubsetsUpTo({"a", "b", "c"}, MaxInputs) :
        /\ configuration =
              Compile(<<Build(outputs1, <<>>, Some(Rule("", None)),
                              SetToSeq(inputs1), SetToSeq(order_only1), None),
                        Build(<<"b">>, <<>>, Some(Rule("", None)),
                              SetToSeq(inputs2), <<>>, None),
                        Build(<<"c">>, implicit3, Some(Rule("", None)),
                              SetToSeq(inputs3), <<>>, None)>>, {})
        /\ graph = BuildGraphNew(configuration.outputs)
        /\ validation = [result |-> None, dynamic |-> None, later |-> None]
        /\ dynamic_files = NoModules
        /\ job_limit = 1
        /\ files = [p \in {} |-> [exists |-> FALSE, mtime |-> 0, content |-> "old"]]
        /\ database = [id \in {} |-> BuildHash(RandomHash(0), RandomHash(0))]
        /\ build_futures = [id \in {} |-> NewFuture]
        /\ permits = 0
        /\ run_pc = "harness"
        /\ run_result = None
        /\ flushed = FALSE
        /\ run_count = 0
        /\ executed = {}
        /\ stored = {}
        /\ random = 0
        /\ history = [prev_ok |-> FALSE, changed |-> FALSE, outputs_present |-> FALSE,
                      skipped |-> {},
                      path |-> "", change |-> ""]
        /\ console = <<>>
        /\ console_lock = {}
        /\ report = NoReport
        /\ compiler = NoCompiler
        /\ reader = NoReader

\* graph.validate() on the graph BuildGraph::new has built.
GraphValidate ==
    /\ run_pc = "harness"
    /\ validation.result = None
    /\ \E result \in validate(graph) :
          validation' = [validation EXCEPT !.result = Some(result)]
    /\ UNCHANGED <<configuration, dynamic_files, job_limit, files, database,
                   build_futures, graph, permits, run_pc, run_result, flushed,
                   run_count, executed, stored, random, history,
                   console, console_lock, report, compiler, reader>>

\* GraphValidateDynamic with the added edges taken back when it fails.
GraphValidateDynamicRollingBack ==
    /\ run_pc = "harness"
    /\ validation.result = Some(Ok)
    /\ validation.dynamic = None
    /\ \E output \in HarnessPaths :
       \E inputs \in SubsetsUpTo(HarnessPaths, 1) :
          LET dynamic_configuration == [o \in {output} |-> SetToSeq(inputs)]
          IN  IF DynamicPanics(graph, dynamic_configuration)
              THEN /\ graph' = graph
                   /\ validation' = [result |-> Some(Panic),
                                     dynamic |-> Some(dynamic_configuration),
                                     later |-> None]
              ELSE /\ graph' = IF validate_dynamic(graph, dynamic_configuration) = {Ok}
                               THEN AddDynamic(graph, dynamic_configuration)
                               ELSE graph
                   /\ \E result \in validate_dynamic(graph, dynamic_configuration) :
                         validation' = [result |-> Some(result),
                                        dynamic |-> Some(dynamic_configuration),
                                        later |-> None]
    /\ UNCHANGED <<configuration, dynamic_files, job_limit, files, database,
                   build_futures, permits, run_pc, run_result, flushed,
                   run_count, executed, stored, random, history,
                   console, console_lock, report, compiler, reader>>

\* graph.validate_dynamic(&configuration) on a graph that has passed validate,
\* with a dynamic configuration of one dynamic build.
GraphValidateDynamic ==
    /\ run_pc = "harness"
    /\ validation.result = Some(Ok)
    /\ validation.dynamic = None
    /\ \E output \in HarnessPaths :
       \E inputs \in SubsetsUpTo(HarnessPaths, 1) :
          LET dynamic_configuration == [o \in {output} |-> SetToSeq(inputs)]
          IN  IF DynamicPanics(graph, dynamic_configuration)
              THEN /\ graph' = graph
                   /\ validation' = [result |-> Some(Panic),
                                     dynamic |-> Some(dynamic_configuration),
                                     later |-> None]
              ELSE /\ graph' = AddDynamic(graph, dynamic_configuration)
                   /\ \E result \in validate_dynamic(graph, dynamic_configuration) :
                         validation' = [result |-> Some(result),
                                        dynamic |-> Some(dynamic_configuration),
                                        later |-> None]
    /\ UNCHANGED <<configuration, dynamic_files, job_limit, files, database,
                   build_futures, permits, run_pc, run_result, flushed,
                   run_count, executed, stored, random, history,
                   console, console_lock, report, compiler, reader>>

\* A later call on the same graph after validate_dynamic has returned
\* CircularBuildDependency: validate, or validate_dynamic with the dynamic
\* configuration of another dynamic build.
GraphValidateAgain ==
    /\ run_pc = "harness"
    /\ IsSome(validation.dynamic)
    /\ IsSome(validation.result)
    /\ validation.result \notin {Some(Ok), Some(Panic)}
    /\ validation.later = None
    /\ \/ /\ graph' = graph
          /\ \E result \in validate(graph) :
                validation' = [validation EXCEPT !.later = Some(result)]
       \/ \E output \in HarnessPaths :
          \E inputs \in SubsetsUpTo(HarnessPaths, 1) :
             LET dynamic_configuration == [o \in {output} |-> SetToSeq(inputs)]
             IN  IF DynamicPanics(graph, dynamic_configuration)
                 THEN /\ graph' = graph
                      /\ validation' = [validation EXCEPT !.later = Some(Panic)]
                 ELSE /\ graph' = AddDynamic(graph, dynamic_configuration)
                      /\ \E result \in validate_dynamic(graph, dynamic_configuration) :
                            validation' = [validation EXCEPT !.later = Some(result)]
    /\ UNCHANGED <<configuration, dynamic_files, job_limit, files, database,
                   build_futures, permits, run_pc, run_result, flushed,
                   run_count, executed, stored, random, history,
                   console, console_lock, report, compiler, reader>>

GraphNext ==
    \/ GraphValidate
    \/ GraphValidateDynamic
    \/ GraphValidateAgain

GraphSpec == GraphInit /\ [][GraphNext]_vars

----------------------------------------------------------------------------
(* Properties of the runner.                                                *)

Futures == DOMAIN build_futures

Failed(id) ==
    IsSome(build_futures[id].result) /\ build_futures[id].result /= Some("ok")

\* The command of the build has been started in this run.
CommandStarted(id) ==
    build_futures[id].pc \in {"command", "finish"} \/ id \in executed

\* The dynamic inputs the dynamic module of a build lists for its primary
\* output.
ListedDynamicInputs(build) ==
    IF /\ build.dynamic_module /= None
       /\ build.dynamic_module[1] \in DOMAIN dynamic_files
       /\ build.outputs[1] \in DOMAIN dynamic_files[build.dynamic_module[1]]
    THEN Range(dynamic_files[build.dynamic_module[1]][build.outputs[1]])
    ELSE {}

\* An input has completed successfully: the procedure of the build that
\* outputs it has finished with Ok, or the file exists.
Completed(input) ==
    IF input \in DOMAIN configuration.outputs
    THEN /\ configuration.outputs[input].id \in Futures
         /\ build_futures[configuration.outputs[input].id].pc = "done"
         /\ build_futures[configuration.outputs[input].id].result = Some("ok")
    ELSE input \in DOMAIN files /\ files[input].exists

Running == {id \in Futures : build_futures[id].pc = "command"}

\* C2: at most job_limit commands execute at any moment, each holding one
\* permit from before its start until after its exit.
C2_AtMostJobLimit ==
    /\ Cardinality(Running) <= job_limit
    /\ Running /= {} => permits = job_limit - Cardinality(Running)

\* One command runs with the only permit while another build waits for it.
C2_Witness ==
    /\ job_limit = 1
    /\ Cardinality(Running) = 1
    /\ \E id \in Futures : build_futures[id].pc = "permit"

\* The inputs of a build that spawn_build hashes, as paths.
HashedPaths(build) ==
    Range(build.inputs)
    \cup (IF /\ build.dynamic_module /= None
             /\ build.dynamic_module[1] \in DOMAIN dynamic_files
             /\ IsSome(FindDynamicInputs(build, dynamic_files[build.dynamic_module[1]]))
          THEN Range(FindDynamicInputs(build, dynamic_files[build.dynamic_module[1]])[1])
          ELSE {})

\* The builds without a rule whose hash is random in every run: those without
\* a hashed input, and those that hash the stored hash of such a build.
RECURSIVE RandomPhony(_)
RandomPhony(S) ==
    LET T == S \cup {b \in BuildsOf(configuration) :
                        /\ b.rule = None
                        /\ \/ HashedPaths(b) = {}
                           \/ \E i \in HashedPaths(b) \cap DOMAIN configuration.outputs :
                                 configuration.outputs[i] \in S}
    IN  IF T = S THEN S ELSE RandomPhony(T)

\* No build with a rule hashes the stored hash of a build whose hash is random.
NoRandomInput ==
    \A b \in BuildsOf(configuration) :
        IsSome(b.rule) =>
            \A i \in HashedPaths(b) \cap DOMAIN configuration.outputs :
                configuration.outputs[i] \notin RandomPhony({})

\* This run follows a run that returned Ok, with no file changed in between.
RepeatedRun ==
    /\ run_pc /= "exited"
    /\ run_count >= 2
    /\ history.prev_ok
    /\ ~history.changed

\* C3 as stated: after a successful run and no file change, the next run
\* executes no command, whatever the configuration.
C3_SecondRunExecutesNothing ==
    RepeatedRun => executed = {}

\* C3 as amended: after a successful run that left every output of every
\* build with a rule in place, and no file change, the next run executes no
\* command, unless a build with a rule has an input whose hash is random.
C3_SecondRunExecutesNothingAmended ==
    (RepeatedRun /\ history.outputs_present /\ NoRandomInput) => executed = {}

\* A second run over a build with a rule has returned Ok and run no command.
C3_Witness ==
    /\ RepeatedRun
    /\ history.outputs_present
    /\ NoRandomInput
    /\ run_pc = "returned"
    /\ run_result = Some("ok")
    /\ executed = {}
    /\ \E id \in Futures : IsSome(TheBuild(id).rule) /\ build_futures[id].pc = "done"

----------------------------------------------------------------------------
(* Properties of the build graph, stated on the builds of the configuration. *)

\* The edges the graph of a configuration is said to have: from every output
\* and implicit output to every explicit, implicit and order-only input of
\* its build, and from every secondary output to the primary output.
DeclaredEdges(config) ==
    UNION {{<<o, i>> : i \in Range(config.outputs[o].inputs)
                            \cup Range(config.outputs[o].order_only_inputs)} :
              o \in DOMAIN config.outputs}
    \cup UNION {{<<b.outputs[k], b.outputs[1]>> : k \in 2..Len(b.outputs)} :
                   b \in BuildsOf(config)}

HasCycle(edges) == \E n \in Nodes(edges) : Reaches(edges, n, n)

\* The strongly connected component of a node.
Component(edges, n) ==
    {m \in Nodes(edges) : m = n \/ (Reaches(edges, n, m) /\ Reaches(edges, m, n))}

\* The primary output of the build that has the path among its outputs.
PrimaryOf(config, path) ==
    (CHOOSE b \in BuildsOf(config) : path \in Range(b.outputs)).outputs[1]

ExplicitOutputs(config) == UNION {Range(b.outputs) : b \in BuildsOf(config)}

\* The edges a dynamic configuration is said to add.
DeclaredDynamicEdges(config, dynamic_configuration) ==
    UNION {{<<PrimaryOf(config, o), i>> : i \in Range(dynamic_configuration[o])} :
              o \in DOMAIN dynamic_configuration}

\* C4: validate returns Ok exactly when the graph of the declared edges has
\* no cycle, and otherwise reports the strongly connected component of a node
\* on a cycle, which is the build alone for a build that is its own only cycle.
C4_ValidateReportsComponent ==
    (validation /= None /\ validation.result /= None /\ validation.dynamic = None) =>
        LET edges == DeclaredEdges(configuration)
            result == validation.result[1]
        IN  /\ result.ok <=> ~HasCycle(edges)
            /\ ~result.ok =>
                  \E n \in Nodes(edges) :
                      Reaches(edges, n, n) /\ result.paths = Component(edges, n)
            /\ \A o \in DOMAIN configuration.outputs :
                  (/\ o \in Range(configuration.outputs[o].inputs)
                   /\ Component(edges, o) = {o}
                   /\ o \in result.paths) => result.paths = {o}

\* validate has reported the two builds that need each other.
C4_Witness ==
    /\ validation /= None
    /\ validation.dynamic = None
    /\ <<"a", "b">> \in DeclaredEdges(configuration)
    /\ <<"b", "a">> \in DeclaredEdges(configuration)
    /\ validation.result = Some(CircularBuildDependency({"a", "b"}))

\* C5: on a graph that has passed validate, validate_dynamic fails with
\* CircularBuildDependency exactly when the declared edges together with the
\* edges primary_of(output) -> input of the dynamic builds contain a cycle.
C5_ValidateDynamicDetectsCycle ==
    (/\ validation /= None
     /\ validation.dynamic /= None
     /\ DOMAIN validation.dynamic[1] \subseteq ExplicitOutputs(configuration)) =>
        LET edges == DeclaredEdges(configuration)
                     \cup DeclaredDynamicEdges(configuration, validation.dynamic[1])
            result == validation.result[1]
        IN  /\ ~HasCycle(DeclaredEdges(configuration))
            /\ result.ok <=> ~HasCycle(edges)
            /\ ~result.ok => result.paths /= {}
            /\ edges \subseteq graph.edges

\* The static graph a -> b with the dynamic edge b -> a has failed.
C5_Witness ==
    /\ validation /= None
    /\ validation.dynamic = Some([o \in {"b"} |-> <<"a">>])
    /\ <<"a", "b">> \in DeclaredEdges(configuration)
    /\ ~validation.result[1].ok
    /\ validation.result[1].paths = {"a", "b"}

----------------------------------------------------------------------------
(* Properties of the runner: cycles, failures, the flush and the hashes.    *)

\* The inputs whose futures a build is awaiting.
Awaited(id) ==
    IF build_futures[id].pc = "inputs" THEN Range(StaticInputs(TheBuild(id)))
    ELSE IF build_futures[id].pc = "dynamic" THEN Range(build_futures[id].dynamic_inputs)
    ELSE {}

\* A build waits for another: it awaits the unfinished future of that build.
WaitsFor ==
    {w \in Futures \X Futures :
        /\ build_futures[w[2]].result = None
        /\ \E input \in Awaited(w[1]) \cap DOMAIN configuration.outputs :
              configuration.outputs[input].id = w[2]}

\* C6: no build of a cycle of dependencies ever waits on another build of the
\* cycle: the cycle is reported by validate or validate_dynamic before.
C6_NoCircularWait ==
    \A id \in Futures : ~Reaches(WaitsFor, id, id)

\* The builds a build needs directly: those of its inputs, order-only inputs
\* and dynamic inputs.
NeededBuilds(build) ==
    {configuration.outputs[i].id :
        i \in (Range(build.inputs) \cup Range(build.order_only_inputs)
               \cup HashedPaths(build)) \cap DOMAIN configuration.outputs}

NeedEdges ==
    UNION {{<<b.id, d>> : d \in NeededBuilds(b)} : b \in BuildsOf(configuration)}

\* The first build depends on the second, directly or transitively.
DependsOn(id, other) == Reaches(NeedEdges, id, other)

\* A file among the inputs of the build is missing.
MissingFile(id) ==
    \E i \in Range(TheBuild(id).inputs) \cup Range(TheBuild(id).order_only_inputs)
             \cup HashedPaths(TheBuild(id)) :
        i \notin DOMAIN configuration.outputs /\ ~check_file_existence(files, i)

\* C7: when a build has failed, run does not return Ok, and every build that
\* depends on the failed build neither executes its command nor stores its
\* hash, and fails, when it completes, with the unchanged error of a failure
\* among its inputs.
C7_FailurePropagates ==
    /\ (run_pc = "returned" /\ run_result = Some("ok")) =>
          \A id \in Futures : ~Failed(id)
    /\ \A f \in Futures : Failed(f) =>
          \A d \in Futures : DependsOn(d, f) =>
              /\ d \notin executed
              /\ d \notin stored
              /\ build_futures[d].pc \notin {"permit", "command", "finish"}
              /\ build_futures[d].result /= Some("ok")
              /\ Failed(d) =>
                    build_futures[d].result[1] \in
                        {build_futures[g].result[1] :
                            g \in {h \in Futures : Failed(h) /\ DependsOn(d, h)}}
                        \cup (IF MissingFile(d) THEN {"Io"} ELSE {})

\* The command of a build has failed, the build that depends on it has failed
\* with the same error, and run has returned that error.
C7_Witness ==
    /\ run_pc = "returned"
    /\ run_result = Some("Build")
    /\ \E f \in Futures, d \in Futures :
          /\ DependsOn(d, f)
          /\ build_futures[f].status = Some(FALSE)
          /\ build_futures[f].result = Some("Build")
          /\ build_futures[d].result = Some("Build")

\* C8: when run returns the error of a failed build, the database flush has
\* been called.
C8_FlushBeforeErrorReturn ==
    (run_pc = "returned" /\ \E id \in Futures : Failed(id)) =>
        (flushed /\ IsSome(run_result) /\ run_result /= Some("ok"))

\* run has returned the error of a failed command after the flush.
C8_Witness ==
    /\ run_pc = "returned"
    /\ run_result = Some("Build")
    /\ flushed
    /\ \E id \in Futures : build_futures[id].result = Some("Build")

\* C9: whenever run returns after builds were started, the successful
\* return included, the database flush has been called.
C9_FlushOnEveryReturn ==
    (run_pc = "returned" /\ \E id \in Futures : build_futures[id].pc /= "registered") =>
        flushed

\* The build has decided with all outputs in place and a timestamp hash
\* other than the stored one.
TimestampChanged(id) ==
    /\ IsSome(TheBuild(id).rule)
    /\ build_futures[id].outputs_exist
    /\ IsSome(build_futures[id].old_hash)
    /\ IsSome(build_futures[id].timestamp_hash)
    /\ build_futures[id].timestamp_hash[1] /= build_futures[id].old_hash[1].timestamp

\* C10: a build with a rule whose outputs exist and whose timestamp hash is
\* not the stored one executes its command exactly when its content hash is
\* not the stored one, and succeeds without it otherwise.
C10_ContentHashDecides ==
    \A id \in Futures : TimestampChanged(id) =>
        /\ IsSome(build_futures[id].content_hash)
        /\ (build_futures[id].content_hash[1] /= build_futures[id].old_hash[1].content)
              <=> (build_futures[id].pc = "permit" \/ CommandStarted(id))
        /\ (build_futures[id].content_hash[1] = build_futures[id].old_hash[1].content)
              => /\ build_futures[id].pc = "done"
                 /\ build_futures[id].result = Some("ok")
                 /\ id \notin executed

\* After an input was touched between two runs, a build has found another
\* timestamp hash and the stored content hash, and has succeeded.
C10_Witness ==
    /\ history.changed
    /\ \E id \in Futures :
          /\ TimestampChanged(id)
          /\ build_futures[id].content_hash = Some(build_futures[id].old_hash[1].content)
          /\ build_futures[id].result = Some("ok")
          /\ id \notin executed

----------------------------------------------------------------------------
(* Properties of the inputs that order a build without being hashed.        *)

\* The file changed since the run before is an order-only input of a build
\* and nothing else: no build hashes it or outputs it, and it still exists.
OrderOnlyChange ==
    /\ history.changed
    /\ history.change \in {"touch", "rewrite"}
    /\ \E b \in BuildsOf(configuration) : history.path \in Range(b.order_only_inputs)
    /\ \A b \in BuildsOf(configuration) : history.path \notin HashedPaths(b)
    /\ history.path \notin DOMAIN configuration.outputs

\* The build is past the first wait of spawn_build without an error.
PastStaticWait(id) ==
    \/ build_futures[id].pc \in {"dynamic", "permit", "command", "finish"}
    \/ build_futures[id].pc = "done" /\ build_futures[id].result = Some("ok")

\* C11: a change of the modification time or content of an order-only input
\* alone, after a successful run, makes no build execute its command in the
\* next run, and a build still waits for its order-only inputs to complete.
C11_OrderOnlyNotHashed ==
    /\ (/\ run_pc /= "exited"
        /\ run_count >= 2
        /\ history.prev_ok
        /\ history.outputs_present
        /\ NoRandomInput
        /\ OrderOnlyChange) => executed = {}
    /\ \A id \in Futures :
          PastStaticWait(id) =>
              \A input \in Range(TheBuild(id).order_only_inputs) : Completed(input)

\* A run after the rewrite of an order-only input has returned Ok: the build
\* with that input finished without running its command.
C11_Witness ==
    /\ run_pc = "returned"
    /\ run_result = Some("ok")
    /\ run_count >= 2
    /\ history.prev_ok
    /\ history.outputs_present
    /\ OrderOnlyChange
    /\ history.change = "rewrite"
    /\ executed = {}
    /\ \E id \in Futures :
          /\ history.path \in Range(TheBuild(id).order_only_inputs)
          /\ IsSome(TheBuild(id).rule)
          /\ build_futures[id].pc = "done"
          /\ build_futures[id].result = Some("ok")

----------------------------------------------------------------------------
(* Properties of the console and of the exit of the process.                *)

\* The place of a write among the writes of one rule.
Rank(part) ==
    CASE part = "description" -> 1
      [] part = "newline" -> 2
      [] part = "stdout" -> 3
      [] part = "stderr" -> 4

\* C12: the console writes of one rule execution are contiguous (no write of
\* another rule between two of them) and ordered (description, then stdout,
\* then stderr), in every interleaving of the rules.
C12_ConsoleContiguous ==
    \A i \in 1..Len(console) :
    \A k \in i..Len(console) :
        (i < k /\ console[i].id = console[k].id) =>
            /\ \A j \in i..k : console[j].id = console[i].id
            /\ Rank(console[i].part) < Rank(console[k].part)

\* A rule holds the console and has written its description while the
\* command of another rule has exited and waits for the console.
C12_Witness ==
    \E id \in Futures :
    \E other \in Futures \ {id} :
        /\ id \in console_lock
        /\ Len(console) > 0
        /\ console[Len(console)] = [id |-> id, part |-> "newline"]
        /\ build_futures[other].pc = "finish"
        /\ other \notin console_lock

\* C13: the process exits with 0 on success and with 1 on every error; the
\* message of an error is written to stderr, after the log prefix if there is
\* one, unless --quiet is given and the error is Build.
C13_ExitCodeAndMessage ==
    (run_pc = "exited" /\ run_count >= 1) =>
        IF run_result = Some("ok")
        THEN report.exit_code = Some(0) /\ report.stderr = None
        ELSE /\ report.exit_code = Some(1)
             /\ (report.stderr = None) <=> (report.quiet /\ run_result = Some("Build"))
             /\ report.stderr /= None =>
                   /\ report.stderr[1][1] =
                         (IF report.log_prefix = None THEN "" ELSE report.log_prefix[1])
                   /\ report.stderr[1][2].error = run_result[1]

\* The process has exited with 1 under --quiet and a log prefix after an
\* error other than Build, whose message was written after the prefix.
C13_Witness ==
    /\ run_pc = "exited"
    /\ report.exit_code = Some(1)
    /\ report.quiet
    /\ run_result = Some("Io")
    /\ report.log_prefix = Some("turtle: ")
    /\ report.stderr = Some(Message(Some("turtle: "), "Io", ""))

\* C14: when a default output is not an output of any build, run returns
\* DefaultOutputNotFound naming it, and no build is polled in that run: no
\* command is executed and no hash is set, also for the default outputs
\* triggered before the missing one.
C14_DefaultOutputNotFound ==
    /\ (run_count >= 1 /\ run_pc = "returned"
          /\ ~(configuration.default_outputs \subseteq DOMAIN configuration.outputs)
          /\ validate(BuildGraphNew(configuration.outputs)) = {Ok}) =>
            run_result = Some("DefaultOutputNotFound")
    /\ run_result = Some("DefaultOutputNotFound") =>
          /\ report.output \in configuration.default_outputs
          /\ report.output \notin DOMAIN configuration.outputs
          /\ executed = {}
          /\ stored = {}
          /\ \A id \in Futures : build_futures[id].pc = "registered"

\* run has returned DefaultOutputNotFound after the build of another default
\* output was triggered.
C14_Witness ==
    /\ run_pc = "returned"
    /\ run_result = Some("DefaultOutputNotFound")
    /\ report.output = "zz"
    /\ Futures /= {}

----------------------------------------------------------------------------
(* Properties of the lookup of the dynamic inputs.                          *)

\* The build has a dynamic module that can be read.
HasDynamicModule(build) ==
    build.dynamic_module /= None /\ build.dynamic_module[1] \in DOMAIN dynamic_files

DynamicModuleOf(build) == dynamic_files[build.dynamic_module[1]]

\* The build is past the lookup of its dynamic inputs without an error.
PastDynamicLookup(id) ==
    \/ build_futures[id].pc \in {"dynamic", "permit", "command", "finish"}
    \/ build_futures[id].pc = "done" /\ build_futures[id].result = Some("ok")

\* C15 as stated: the dynamic inputs of a build are those its dynamic module
\* lists for its primary output, and a build whose primary output is not in
\* the module never gets past the lookup nor runs its command, also when a
\* secondary output is in the module.
C15_DynamicInputsOfPrimaryOutput ==
    \A id \in Futures :
        HasDynamicModule(TheBuild(id)) =>
            IF TheBuild(id).outputs[1] \in DOMAIN DynamicModuleOf(TheBuild(id))
            THEN PastDynamicLookup(id) =>
                    build_futures[id].dynamic_inputs =
                        DynamicModuleOf(TheBuild(id))[TheBuild(id).outputs[1]]
            ELSE ~PastDynamicLookup(id) /\ ~CommandStarted(id)

\* The indices of the explicit outputs of a build that its module lists.
ListedOutputs(build) ==
    {i \in 1..Len(build.outputs) : build.outputs[i] \in DOMAIN DynamicModuleOf(build)}

\* C15 as amended: the dynamic inputs of a build are those its dynamic module
\* lists for the first of its explicit outputs that the module lists, and the
\* build fails with DynamicDependencyNotFound, without running its command,
\* only when the module lists none of its explicit outputs; such a build
\* never gets past the lookup.
C15_DynamicInputsOfFirstListedOutput ==
    \A id \in Futures :
        HasDynamicModule(TheBuild(id)) =>
            LET listed == ListedOutputs(TheBuild(id))
            IN  /\ build_futures[id].result = Some("DynamicDependencyNotFound") =>
                      listed = {} /\ ~CommandStarted(id)
                /\ listed = {} => ~PastDynamicLookup(id) /\ ~CommandStarted(id)
                /\ (listed /= {} /\ PastDynamicLookup(id)) =>
                      \E i \in listed :
                          /\ \A j \in listed : i <= j
                          /\ build_futures[id].dynamic_inputs =
                                DynamicModuleOf(TheBuild(id))[TheBuild(id).outputs[i]]

\* The command of a build runs with the dynamic inputs its module lists for
\* its secondary output, the primary output not being listed.
C15_Witness ==
    \E id \in Futures :
        /\ HasDynamicModule(TheBuild(id))
        /\ build_futures[id].pc = "command"
        /\ 1 \notin ListedOutputs(TheBuild(id))
        /\ 2 \in ListedOutputs(TheBuild(id))
        /\ build_futures[id].dynamic_inputs /= <<>>

\* A build none of whose explicit outputs is listed by its dynamic module has
\* failed with DynamicDependencyNotFound.
NotFoundReached ==
    \E id \in Futures :
        /\ HasDynamicModule(TheBuild(id))
        /\ ListedOutputs(TheBuild(id)) = {}
        /\ build_futures[id].result = Some("DynamicDependencyNotFound")

----------------------------------------------------------------------------
(* compile.rs.  A string is the sequence of its characters; a path is one   *)
(* character of the strings it is joined into.                              *)

\* A rule template has at most MaxTemplate characters.
MaxTemplate == 3
\* A module of the output-map family has at most MaxBuilds build statements.
MaxBuilds == 2

\* [[:alpha:]_] and [[:alnum:]_] over the characters of the templates.
IsNameStart(c) == c \in {"x", "_", "i", "o"}
IsNameChar(c) == c \in {"x", "_", "i", "o", "n", "u", "t", "1"}

\* ChainMap: a stack of layers, the newest last; a layer maps keys to values.
ChainMapNew == <<[k \in {} |-> <<>>]>>

\* ChainMap::get: the first hit from the newest layer to the oldest.
RECURSIVE ChainMapGetFrom(_, _, _)
ChainMapGetFrom(map, key, i) ==
    IF i = 0 THEN None
    ELSE IF key \in DOMAIN map[i] THEN Some(map[i][key])
    ELSE ChainMapGetFrom(map, key, i - 1)

ChainMapGet(map, key) == ChainMapGetFrom(map, key, Len(map))

\* ChainMap::insert: a write into the newest layer only.
ChainMapInsert(map, key, value) ==
    [map EXCEPT ![Len(map)] =
        [k \in DOMAIN @ \cup {key} |-> IF k = key THEN value ELSE @[k]]]

\* ChainMap::fork: a child view with a new empty newest layer; the layers of
\* the ancestors are not written through it.
ChainMapFork(map) == Append(map, [k \in {} |-> <<>>])

\* ModuleState::fork: both the rules and the variables are forked.
ModuleStateFork(module_state) ==
    [rules |-> ChainMapFork(module_state.rules),
     variables |-> ChainMapFork(module_state.variables)]

\* The end of the longest name that starts at position i of a template.
RECURSIVE NameEnd(_, _)
NameEnd(template, i) ==
    IF i < Len(template) /\ IsNameChar(template[i + 1])
    THEN NameEnd(template, i + 1)
    ELSE i

\* VARIABLE_PATTERN.replace_all: every match of \$([[:alpha:]_][[:alnum:]_]*),
\* leftmost first and not overlapping, is replaced by the value of the
\* variable, or by nothing when the variable is not defined.
RECURSIVE ReplaceVariables(_, _, _)
ReplaceVariables(template, variables, i) ==
    IF i > Len(template) THEN <<>>
    ELSE IF /\ template[i] = "$"
            /\ i < Len(template)
            /\ IsNameStart(template[i + 1])
    THEN LET end == NameEnd(template, i + 1)
             value == ChainMapGet(variables, SubSeq(template, i + 1, end))
         IN  (IF IsSome(value) THEN value[1] ELSE <<>>)
             \o ReplaceVariables(template, variables, end + 1)
    ELSE <<template[i]>> \o ReplaceVariables(template, variables, i + 1)

\* str::replace("$$", "$"): every match of "$$", leftmost first and not
\* overlapping, becomes one "$".
RECURSIVE ReplaceDollars(_, _)
ReplaceDollars(string, i) ==
    IF i > Len(string) THEN <<>>
    ELSE IF string[i] = "$" /\ i < Len(string) /\ string[i + 1] = "$"
    THEN <<"$">> \o ReplaceDollars(string, i + 2)
    ELSE <<string[i]>> \o ReplaceDollars(string, i + 1)

\* interpolate_variables: the variables are replaced first, then "$$".
interpolate_variables(template, variables) ==
    ReplaceDollars(ReplaceVariables(template, variables, 1), 1)

\* [paths].join(" ")
RECURSIVE Join(_)
Join(paths) ==
    IF paths = <<>> THEN <<>>
    ELSE IF Len(paths) = 1 THEN <<paths[1]>>
    ELSE <<paths[1], " ">> \o Join(Tail(paths))

\* The statements of the abstract syntax tree.
VariableDefinition(name, value) == [type |-> "variable", name |-> name, value |-> value]

AstRule(name, command, description) ==
    [type |-> "rule", name |-> name, command |-> command, description |-> description]

AstBuild(outputs, implicit_outputs, rule, inputs, implicit_inputs, order_only_inputs, variable_definitions) ==
    [type |-> "build", outputs |-> outputs, implicit_outputs |-> implicit_outputs,
     rule |-> rule, inputs |-> inputs, implicit_inputs |-> implicit_inputs,
     order_only_inputs |-> order_only_inputs,
     variable_definitions |-> variable_definitions]

Default(outputs) == [type |-> "default", outputs |-> outputs]
Include(path) == [type |-> "include", path |-> path]
Submodule(path) == [type |-> "submodule", path |-> path]

PHONY_RULE == "phony"
DYNAMIC_MODULE_VARIABLE == <<"d", "y", "n", "d", "e", "p">>

\* The variables of a build statement: the fork of the module's variables
\* extended with the definitions of the build, then "in" and "out".
RECURSIVE Extend(_, _)
Extend(variables, definitions) ==
    IF definitions = <<>> THEN variables
    ELSE Extend(ChainMapInsert(variables, definitions[1][1], definitions[1][2]),
                Tail(definitions))

\* BuildVariables with "in" and "out" holding the implicit paths too.
BuildVariablesWithImplicit(variables, build) ==
    Extend(ChainMapFork(variables),
           build.variable_definitions
           \o <<<<(<<"i", "n">>), Join(build.inputs \o build.implicit_inputs)>>,
                <<(<<"o", "u", "t">>), Join(build.outputs \o build.implicit_outputs)>>>>)

BuildVariables(variables, build) ==
    Extend(ChainMapFork(variables),
           build.variable_definitions
           \o <<<<(<<"i", "n">>), Join(build.inputs)>>,
                <<(<<"o", "u", "t">>), Join(build.outputs)>>>>)

\* The Rule of the IR for a build statement whose rule is in scope.
InterpolatedRule(rule, variables) ==
    Rule(interpolate_variables(rule.command, variables),
         IF IsSome(rule.description)
         THEN Some(interpolate_variables(rule.description[1], variables))
         ELSE None)

\* global_state.outputs.extend: the build is recorded under each of its
\* outputs and implicit outputs, over what was recorded there.
OutputsExtend(outputs, ir) ==
    LET keys == Range(ir.outputs) \cup Range(ir.implicit_outputs)
    IN  [o \in DOMAIN outputs \cup keys |-> IF o \in keys THEN ir ELSE outputs[o]]

\* The ModuleState compile_module is called with for an include (the state of
\* the caller itself) and for a submodule (a fork of it).
CalleeState(kind, module_state) ==
    IF kind = "submodule" THEN ModuleStateFork(module_state) ELSE module_state

\* CallerState with the submodule compiled in the state of the caller.
CallerStateShared(kind, caller_state, callee_state) == callee_state

\* CallerState with the caller keeping its own state after every call.
CallerStateOwn(kind, caller_state, callee_state) == caller_state

\* The ModuleState of the caller when compile_module returns: what the callee
\* made of it for an include, its own untouched state for a submodule.
CallerState(kind, caller_state, callee_state) ==
    IF kind = "submodule" THEN caller_state ELSE callee_state

\* A frame of compile_module: the module, the next statement, how the module
\* was entered and the ModuleState it compiles with.
Frame(path, kind, module_state) ==
    [path |-> path, index |-> 1, kind |-> kind, module_state |-> module_state]

\* compile() up to the call of compile_module for the root module.
CompilerNew(modules) ==
    [modules |-> modules,
     stack |-> <<Frame("build.ninja", "root",
                       [rules |-> ChainMapNew, variables |-> ChainMapNew])>>,
     outputs |-> [o \in {} |-> <<>>], default_outputs |-> {},
     built |-> {}, returned |-> None, result |-> None, argument |-> None]

----------------------------------------------------------------------------
(* compile_module, one statement at a time.                                 *)

Top == compiler.stack[Len(compiler.stack)]

\* compile_module is at a statement of the given type.
AtStatement(type) ==
    /\ run_pc = "compile"
    /\ compiler.result = None
    /\ compiler.stack /= <<>>
    /\ Top.index <= Len(compiler.modules[Top.path])
    /\ compiler.modules[Top.path][Top.index].type = type

Statement == compiler.modules[Top.path][Top.index]

\* The compiler after the statement of the top frame, with a new ModuleState.
Advance(c, module_state) ==
    [c EXCEPT !.stack[Len(c.stack)].index = @ + 1,
              !.stack[Len(c.stack)].module_state = module_state,
              !.returned = None]

\* compile returns an error of CompileError with its argument: the name of the
\* rule or the path of the module that was not found.
Fail(c, error, argument) ==
    [c EXCEPT !.stack = <<>>, !.returned = None, !.result = Some(error),
              !.argument = Some(argument)]

RunnerUnchanged ==
    UNCHANGED <<configuration, dynamic_files, job_limit, files, database, build_futures,
                graph, permits, run_pc, run_result, flushed, run_count, executed,
                stored, random, history, validation, console, console_lock, report,
                reader>>

\* ast::Statement::VariableDefinition
CompileVariableDefinition ==
    /\ AtStatement("variable")
    /\ compiler' =
          Advance(compiler,
                  [Top.module_state EXCEPT
                      !.variables = ChainMapInsert(@, Statement.name, Statement.value)])
    /\ RunnerUnchanged

\* ast::Statement::Rule
CompileRule ==
    /\ AtStatement("rule")
    /\ compiler' =
          Advance(compiler,
                  [Top.module_state EXCEPT
                      !.rules = ChainMapInsert(@, Statement.name, Statement)])
    /\ RunnerUnchanged

\* CompileBuild with a rule that is not found taken as no rule.
CompileBuildWithoutRule ==
    /\ AtStatement("build")
    /\ LET variables == BuildVariables(Top.module_state.variables, Statement)
           rule == ChainMapGet(Top.module_state.rules, Statement.rule)
           ir == Build(Statement.outputs, Statement.implicit_outputs,
                       IF rule = None THEN None
                       ELSE Some(InterpolatedRule(rule[1], variables)),
                       Statement.inputs \o Statement.implicit_inputs,
                       Statement.order_only_inputs,
                       ChainMapGet(variables, DYNAMIC_MODULE_VARIABLE))
       IN  compiler' =
              [Advance(compiler, Top.module_state) EXCEPT
                  !.outputs = OutputsExtend(@, ir),
                  !.built = @ \cup {ir}]
    /\ RunnerUnchanged

\* ast::Statement::Build
CompileBuild ==
    /\ AtStatement("build")
    /\ LET variables == BuildVariables(Top.module_state.variables, Statement)
           rule == ChainMapGet(Top.module_state.rules, Statement.rule)
           dyndep == ChainMapGet(variables, DYNAMIC_MODULE_VARIABLE)
           ir == Build(Statement.outputs, Statement.implicit_outputs,
                       IF Statement.rule = PHONY_RULE THEN None
                       ELSE Some(InterpolatedRule(rule[1], variables)),
                       Statement.inputs \o Statement.implicit_inputs,
                       Statement.order_only_inputs,
                       dyndep)
       IN  IF Statement.rule /= PHONY_RULE /\ rule = None
           THEN compiler' = Fail(compiler, "RuleNotFound", Statement.rule)
           ELSE compiler' =
                   [Advance(compiler, Top.module_state) EXCEPT
                       !.outputs = OutputsExtend(@, ir),
                       !.built = @ \cup {ir}]
    /\ RunnerUnchanged

\* ast::Statement::Default
CompileDefault ==
    /\ AtStatement("default")
    /\ compiler' =
          [Advance(compiler, Top.module_state) EXCEPT
              !.default_outputs = @ \cup Range(Statement.outputs)]
    /\ RunnerUnchanged

\* The call of compile_module for an include or a submodule statement.
Call(kind) ==
    IF Statement.path \notin DOMAIN compiler.modules
    THEN Fail(compiler, "ModuleNotFound", Statement.path)
    ELSE [compiler EXCEPT
             !.stack = Append(@, Frame(Statement.path, kind,
                                       CalleeState(kind, Top.module_state))),
             !.returned = None]

\* ast::Statement::Include
CompileInclude ==
    /\ AtStatement("include")
    /\ compiler' = Call("include")
    /\ RunnerUnchanged

\* ast::Statement::Submodule
CompileSubmodule ==
    /\ AtStatement("submodule")
    /\ compiler' = Call("submodule")
    /\ RunnerUnchanged

\* compile_module returns Ok to the compile_module that called it, which goes
\* on to its next statement.
CompileReturn ==
    /\ run_pc = "compile"
    /\ compiler.result = None
    /\ Len(compiler.stack) > 1
    /\ Top.index > Len(compiler.modules[Top.path])
    /\ LET caller == compiler.stack[Len(compiler.stack) - 1]
           module_state == CallerState(Top.kind, caller.module_state, Top.module_state)
           popped == [compiler EXCEPT !.stack = SubSeq(@, 1, Len(@) - 1)]
       IN  compiler' =
              [Advance(popped, module_state) EXCEPT
                  !.returned = Some([kind |-> Top.kind,
                                     before |-> caller.module_state,
                                     after |-> module_state])]
    /\ RunnerUnchanged

\* compile_module returns Ok to compile, which takes every output as a default
\* output when none was declared and returns the Configuration.
CompileFinish ==
    /\ run_pc = "compile"
    /\ compiler.result = None
    /\ Len(compiler.stack) = 1
    /\ Top.index > Len(compiler.modules[Top.path])
    /\ compiler' =
          [compiler EXCEPT
              !.stack = <<>>,
              !.returned = None,
              !.default_outputs = IF @ = {} THEN DOMAIN compiler.outputs ELSE @,
              !.result = Some("ok")]
    /\ RunnerUnchanged

----------------------------------------------------------------------------
(* The module sets compiled.                                                *)

\* [x = value] / rule r: command = template / build out: r, for every template
\* of at most MaxTemplate characters and the values x may have.
InterpolationModules ==
    LET TemplateChars == {"$", "x", "1", " "}
        Templates == UNION {[1..n -> TemplateChars] : n \in 0..MaxTemplate}
        Values == {<<"4", "2">>, <<"$">>, <<"$", "$">>, <<"$", "x">>}
    IN  {[m \in {"build.ninja"} |->
             definitions
             \o <<AstRule("r", template, None),
                  AstBuild(<<"out">>, <<>>, "r", <<>>, <<>>, <<>>, <<>>)>>] :
            template \in Templates,
            definitions \in {<<>>} \cup {<<VariableDefinition(<<"x">>, v)>> : v \in Values}}

\* The build statements of the modules that declare outputs more than once.
BuildPool ==
    {AstBuild(<<"a", "b">>, <<>>, "r", <<"in">>, <<>>, <<>>, <<>>),
     AstBuild(<<"b", "c">>, <<>>, "r", <<>>, <<>>, <<>>, <<>>),
     AstBuild(<<"a", "b">>, <<>>, PHONY_RULE, <<>>, <<>>, <<>>, <<>>),
     AstBuild(<<"a">>, <<"y">>, "r", <<>>, <<>>, <<>>, <<>>),
     AstBuild(<<"a", "b">>, <<>>, "q", <<"in2">>, <<"h">>, <<"oo">>,
              <<<<DYNAMIC_MODULE_VARIABLE, "dd">>>>)}

\* rule r / rule q / at most MaxBuilds build statements / [default]
OutputModules ==
    {[m \in {"build.ninja"} |->
         <<AstRule("r", <<"x">>, None), AstRule("q", <<"1">>, Some(<<"x">>))>>
         \o builds \o defaults] :
        builds \in UNION {[1..n -> BuildPool] : n \in 1..MaxBuilds},
        defaults \in {<<>>, <<Default(<<"a">>)>>}}

\* The statements a child module of the scope family may hold.
ChildModules ==
    {<<VariableDefinition(<<"x">>, <<"1", "3">>)>>,
     <<VariableDefinition(<<"x">>, <<"1", "3">>), AstRule("foo", <<"$", "x">>, None)>>,
     <<AstRule("foo", <<"$", "x">>, None)>>,
     <<VariableDefinition(<<"x">>, <<"1", "3">>),
       AstBuild(<<"baz">>, <<>>, "foo", <<>>, <<>>, <<>>, <<>>)>>}

\* x = 42 / [rule foo: command = $x] / include or subninja of a child module,
\* which may be missing / build bar: foo
ScopeModules ==
    {[m \in {"build.ninja"} \cup present |->
         IF m = "build.ninja"
         THEN <<VariableDefinition(<<"x">>, <<"4", "2">>)>> \o rules
              \o <<call, AstBuild(<<"bar">>, <<>>, "foo", <<>>, <<>>, <<>>, <<>>)>>
         ELSE child] :
        rules \in {<<>>, <<AstRule("foo", <<"$", "x">>, None)>>},
        call \in {Include("sub.ninja"), Submodule("sub.ninja")},
        child \in ChildModules,
        present \in {{}, {"sub.ninja"}}}

\* rule c: command = $in, description = $out / build with explicit and
\* implicit inputs and outputs, and possibly a definition of in of its own
BindingModules ==
    {[m \in {"build.ninja"} |->
         <<AstRule("c", <<"$", "i", "n">>, Some(<<"$", "o", "u", "t">>)),
           AstBuild(outputs, implicit_outputs, "c", inputs, implicit_inputs, <<>>,
                    definitions)>>] :
        outputs \in {<<"a">>, <<"a", "b">>},
        implicit_outputs \in {<<>>, <<"y">>},
        inputs \in {<<>>, <<"p">>, <<"p", "q">>},
        implicit_inputs \in {<<>>, <<"h">>},
        definitions \in {<<>>, <<<<(<<"i", "n">>), <<"z">>>>>>}}

\* [x = 42] / build bar: foo or build bar: phony / rule foo: command = $x
LateRuleModules ==
    {[m \in {"build.ninja"} |->
         definitions
         \o <<AstBuild(<<"bar">>, <<>>, rule, <<>>, <<>>, <<>>, <<>>),
              AstRule("foo", <<"$", "x">>, None)>>] :
        definitions \in {<<>>, <<VariableDefinition(<<"x">>, <<"4", "2">>)>>},
        rule \in {"foo", PHONY_RULE}}

CompileInit ==
    /\ compiler \in {CompilerNew(modules) :
                        modules \in InterpolationModules \cup OutputModules
                                    \cup ScopeModules \cup BindingModules
                                    \cup LateRuleModules}
    /\ run_pc = "compile"
    /\ configuration = Compile(<<>>, {})
    /\ dynamic_files = NoModules
    /\ job_limit = 1
    /\ files = [p \in {} |-> [exists |-> FALSE, mtime |-> 0, content |-> "old"]]
    /\ database = [id \in {} |-> BuildHash(RandomHash(0), RandomHash(0))]
    /\ build_futures = [id \in {} |-> NewFuture]
    /\ graph = EmptyGraph
    /\ permits = 0
    /\ run_result = None
    /\ flushed = FALSE
    /\ run_count = 0
    /\ executed = {}
    /\ stored = {}
    /\ random = 0
    /\ history = [prev_ok |-> FALSE, changed |-> FALSE, outputs_present |-> FALSE,
                      skipped |-> {},
                  path |-> "", change |-> ""]
    /\ validation = None
    /\ console = <<>>
    /\ console_lock = {}
    /\ report = NoReport
    /\ reader = NoReader

CompileNext ==
    \/ CompileVariableDefinition
    \/ CompileRule
    \/ CompileBuild
    \/ CompileDefault
    \/ CompileInclude
    \/ CompileSubmodule
    \/ CompileReturn
    \/ CompileFinish

CompileSpec == CompileInit /\ [][CompileNext]_vars

----------------------------------------------------------------------------
(* C16                                                                      *)

\* compile has returned a Configuration.
Compiled == compiler.result = Some("ok")

\* The explicit and implicit outputs of a build.
DeclaredOutputs(build) == Range(build.outputs) \cup Range(build.implicit_outputs)

\* C16: in a compiled configuration every output path that a build of the
\* outputs map declares, explicit or implicit, is a key of the map and maps
\* to that very build, also when several build statements declare the same
\* output path.
C16_OutputsMapToTheirBuild ==
    Compiled =>
        \A output \in DOMAIN compiler.outputs :
            \A path \in DeclaredOutputs(compiler.outputs[output]) :
                /\ path \in DOMAIN compiler.outputs
                /\ compiler.outputs[path] = compiler.outputs[output]

----------------------------------------------------------------------------
(* C17                                                                      *)

\* Two builds that declare the same outputs and implicit outputs.
SameOutputs(a, b) ==
    a.outputs = b.outputs /\ a.implicit_outputs = b.implicit_outputs

\* C17: the id of a build depends only on its outputs and implicit outputs:
\* two builds compiled with the same outputs and implicit outputs have the
\* same id whatever their rule, inputs, order-only inputs or dynamic module,
\* so a hash stored in the database under the id of the one is found under
\* the id of the other.
C17_IdOfOutputsOnly ==
    \A a, b \in compiler.built :
        SameOutputs(a, b) =>
            /\ a.id = b.id
            /\ b.id \in DOMAIN DatabaseSet(database, a.id,
                                          BuildHash(RandomHash(0), RandomHash(0)))

\* Two builds with the same outputs were compiled that differ in their rule,
\* inputs, order-only inputs and dynamic module, and have one id.
C17_Witness ==
    \E a, b \in compiler.built :
        /\ SameOutputs(a, b)
        /\ a.rule /= b.rule
        /\ a.inputs /= b.inputs
        /\ a.order_only_inputs /= b.order_only_inputs
        /\ a.dynamic_module /= b.dynamic_module
        /\ a.id = b.id

----------------------------------------------------------------------------
(* C18                                                                      *)

\* The result of one scan of a template from left to right: "$$" gives one
\* "$", "$NAME" gives the value of NAME in the scope or nothing, every other
\* character gives itself.
RECURSIVE ScanLeftToRight(_, _, _)
ScanLeftToRight(template, variables, i) ==
    IF i > Len(template) THEN <<>>
    ELSE IF template[i] = "$" /\ i < Len(template) /\ template[i + 1] = "$"
    THEN <<"$">> \o ScanLeftToRight(template, variables, i + 2)
    ELSE IF template[i] = "$" /\ i < Len(template) /\ IsNameStart(template[i + 1])
    THEN LET end == NameEnd(template, i + 1)
             value == ChainMapGet(variables, SubSeq(template, i + 1, end))
         IN  (IF IsSome(value) THEN value[1] ELSE <<>>)
             \o ScanLeftToRight(template, variables, end + 1)
    ELSE <<template[i]>> \o ScanLeftToRight(template, variables, i + 1)

\* The module set is one that interpolates a template into build out.
Interpolating == compiler.modules \in InterpolationModules

\* The command template of rule r and the variables at build out in a module
\* set that interpolates a template.
TemplateOfR ==
    LET module == compiler.modules["build.ninja"]
    IN  module[Len(module) - 1].command

VariablesAtOut ==
    LET module == compiler.modules["build.ninja"]
        scope == IF module[1].type = "variable"
                 THEN ChainMapInsert(ChainMapNew, module[1].name, module[1].value)
                 ELSE ChainMapNew
    IN  BuildVariables(scope, module[Len(module)])

\* No value of a variable in scope at build out holds a "$".
PlainValues ==
    \A i \in 1..Len(VariablesAtOut) :
        \A name \in DOMAIN VariablesAtOut[i] : "$" \notin Range(VariablesAtOut[i][name])

\* C18: in variable interpolation every "$$" of a rule template, scanned
\* left to right, yields exactly one "$" in the result whatever the scope
\* contains, so "$$x" yields the literal "$x" also when x is defined; here for
\* scopes whose values hold no "$", where the command differs from the
\* left-to-right scan only by what became of a "$$".
C18_DollarDollarYieldsDollar ==
    (Compiled /\ Interpolating /\ PlainValues) =>
        compiler.outputs["out"].rule[1].command
            = ScanLeftToRight(TemplateOfR, VariablesAtOut, 1)

----------------------------------------------------------------------------
(* C19                                                                      *)

\* The keys of every layer of a ChainMap.
KeysOf(map) == UNION {DOMAIN map[i] : i \in 1..Len(map)}

\* compile_module has just returned to the module that named it in a
\* statement of the given kind.
ReturnedFrom(kind) ==
    /\ compiler.returned /= None
    /\ compiler.returned[1].kind = kind

\* A module defines the variable.
Defines(module, name) ==
    \E i \in 1..Len(module) : module[i].type = "variable" /\ module[i].name = name

\* C19: a variable definition made inside a submodule never changes what the
\* parent module sees: when the submodule has been compiled, the next
\* statement of the parent finds for each variable the value it had in the
\* parent before the subninja statement.
C19_SubmoduleVariablesConfined ==
    ReturnedFrom("submodule") =>
        LET before == compiler.returned[1].before.variables
            seen == Top.module_state.variables
        IN  \A name \in KeysOf(before) \cup KeysOf(seen)
                         \cup KeysOf(compiler.returned[1].after.variables) :
                ChainMapGet(seen, name) = ChainMapGet(before, name)

\* A submodule that sets x = 13 has been compiled under a parent with x = 42,
\* and the parent still finds 42.
C19_Witness ==
    /\ ReturnedFrom("submodule")
    /\ Defines(compiler.modules["sub.ninja"], <<"x">>)
    /\ ChainMapGet(compiler.returned[1].before.variables, <<"x">>) = Some(<<"4", "2">>)
    /\ ChainMapGet(Top.module_state.variables, <<"x">>) = Some(<<"4", "2">>)

----------------------------------------------------------------------------
(* C20                                                                      *)

\* rule foo with command $x, x = 13 and build bar: foo as statements.
RuleFoo == AstRule("foo", <<"$", "x">>, None)
SetX13 == VariableDefinition(<<"x">>, <<"1", "3">>)
BuildBar == AstBuild(<<"bar">>, <<>>, "foo", <<>>, <<>>, <<>>, <<>>)

\* Root: x = 42 / subninja sub.ninja / build bar: foo.
\* Sub: x = 13 / rule foo with command $x.
RuleInSubmodule ==
    compiler.modules =
        [m \in {"build.ninja", "sub.ninja"} |->
            IF m = "build.ninja"
            THEN <<VariableDefinition(<<"x">>, <<"4", "2">>),
                   Submodule("sub.ninja"), BuildBar>>
            ELSE <<SetX13, RuleFoo>>]

\* Root: x = 42 / rule foo with command $x / subninja sub.ninja /
\* build bar: foo. Sub: x = 13, with or without a rule foo of its own.
RuleInRoot ==
    /\ DOMAIN compiler.modules = {"build.ninja", "sub.ninja"}
    /\ compiler.modules["build.ninja"] =
           <<VariableDefinition(<<"x">>, <<"4", "2">>), RuleFoo,
             Submodule("sub.ninja"), BuildBar>>
    /\ compiler.modules["sub.ninja"] \in {<<SetX13>>, <<SetX13, RuleFoo>>}

\* compile has returned, a Configuration or an error.
CompileReturned == compiler.result /= None

\* compile succeeded and build bar has the command "42".
BarRuns42 ==
    /\ Compiled
    /\ "bar" \in DOMAIN compiler.outputs
    /\ compiler.outputs["bar"].rule = Some(Rule(<<"4", "2">>, None))

\* C20: compiling root `x = 42`, `subninja sub.ninja`, `build bar: foo`, where
\* sub.ninja sets `x = 13` and defines `rule foo` with command `$x`, succeeds
\* and gives build bar the command "42".
C20_RuleOfSubmoduleGives42 ==
    (RuleInSubmodule /\ CompileReturned) => BarRuns42

\* C20 as the code has it: with rule foo defined only in the submodule, compile
\* fails with RuleNotFound at build bar; with rule foo defined in the root
\* before the subninja statement, compile succeeds and build bar has the
\* command "42", whatever the submodule defines.
C20_RuleOfRootGives42 ==
    /\ (RuleInSubmodule /\ CompileReturned) => compiler.result = Some("RuleNotFound")
    /\ (RuleInRoot /\ CompileReturned) => BarRuns42

\* compile has returned for the root that defines rule foo itself, with a
\* submodule that sets x = 13 and defines its own rule foo: bar runs 42.
C20_Witness ==
    /\ RuleInRoot
    /\ compiler.modules["sub.ninja"] = <<SetX13, RuleFoo>>
    /\ BarRuns42

\* compile has failed for the root whose rule foo is defined in the submodule.
RuleInSubmoduleNotFound ==
    RuleInSubmodule /\ compiler.result = Some("RuleNotFound")

----------------------------------------------------------------------------
(* C21                                                                      *)

\* The statements of a module with every include statement replaced by the
\* statements of the included module.
RECURSIVE Inline(_, _)
Inline(modules, statements) ==
    IF statements = <<>> THEN <<>>
    ELSE (IF Head(statements).type = "include"
          THEN Inline(modules, modules[Head(statements).path])
          ELSE <<Head(statements)>>)
         \o Inline(modules, Tail(statements))

\* compile_module over statements that are no include and no subninja, from
\* the state c: a ModuleState, the outputs and default outputs so far, and the
\* error once there is one.
RECURSIVE CompileStatements(_, _)
CompileStatements(statements, c) ==
    IF statements = <<>> \/ c.result /= None THEN c
    ELSE LET statement == Head(statements)
             variables == BuildVariables(c.module_state.variables, statement)
             rule == ChainMapGet(c.module_state.rules, statement.rule)
             ir == Build(statement.outputs, statement.implicit_outputs,
                         IF statement.rule = PHONY_RULE THEN None
                         ELSE Some(InterpolatedRule(rule[1], variables)),
                         statement.inputs \o statement.implicit_inputs,
                         statement.order_only_inputs,
                         ChainMapGet(variables, DYNAMIC_MODULE_VARIABLE))
             next ==
                CASE statement.type = "variable" ->
                        [c EXCEPT !.module_state.variables =
                            ChainMapInsert(@, statement.name, statement.value)]
                  [] statement.type = "rule" ->
                        [c EXCEPT !.module_state.rules =
                            ChainMapInsert(@, statement.name, statement)]
                  [] statement.type = "default" ->
                        [c EXCEPT !.default_outputs = @ \cup Range(statement.outputs)]
                  [] statement.type = "build" ->
                        IF statement.rule /= PHONY_RULE /\ rule = None
                        THEN [c EXCEPT !.result = Some("RuleNotFound"),
                                       !.argument = Some(statement.rule)]
                        ELSE [c EXCEPT !.outputs = OutputsExtend(@, ir)]
         IN  CompileStatements(Tail(statements), next)

\* What compile returns for the root module with its includes inlined.
InlinedResult ==
    LET c == CompileStatements(
                Inline(compiler.modules, compiler.modules["build.ninja"]),
                [module_state |-> [rules |-> ChainMapNew, variables |-> ChainMapNew],
                 outputs |-> [o \in {} |-> <<>>], default_outputs |-> {},
                 result |-> None, argument |-> None])
    IN  IF c.result /= None
        THEN [result |-> c.result, argument |-> c.argument]
        ELSE [result |-> Some("ok"), outputs |-> c.outputs,
              default_outputs |-> IF c.default_outputs = {} THEN DOMAIN c.outputs
                                  ELSE c.default_outputs]

\* What compile has returned.
CompileResult ==
    IF Compiled
    THEN [result |-> compiler.result, outputs |-> compiler.outputs,
          default_outputs |-> compiler.default_outputs]
    ELSE [result |-> compiler.result, argument |-> compiler.argument]

\* The module set has no subninja statement, and every module it includes is
\* there.
IncludesOnly ==
    \A path \in DOMAIN compiler.modules :
        \A i \in 1..Len(compiler.modules[path]) :
            LET statement == compiler.modules[path][i]
            IN  /\ statement.type /= "submodule"
                /\ statement.type = "include" => statement.path \in DOMAIN compiler.modules

\* The root module includes sub.ninja.
IncludesSub ==
    /\ "sub.ninja" \in DOMAIN compiler.modules
    /\ \E i \in 1..Len(compiler.modules["build.ninja"]) :
          compiler.modules["build.ninja"][i] = Include("sub.ninja")

\* C21: an include compiles the included module in the scope of the including
\* module without forking: every variable and rule the included module
\* defines is visible to, and overrides earlier definitions for, the
\* statements that follow the include, exactly as if the included text were
\* inlined: compile returns what it returns for the inlined module.
C21_IncludeIsInlining ==
    (CompileReturned /\ IncludesOnly /\ IncludesSub) => CompileResult = InlinedResult

\* compile has returned for a root with x = 42 and no rule of its own that
\* includes a module setting x = 13 and defining rule foo with command $x:
\* build bar: foo, after the include, has the command "13".
C21_Witness ==
    /\ IncludesOnly
    /\ IncludesSub
    /\ compiler.modules["sub.ninja"] = <<SetX13, RuleFoo>>
    /\ Len(compiler.modules["build.ninja"]) = 3
    /\ Compiled
    /\ compiler.outputs["bar"].rule = Some(Rule(<<"1", "3">>, None))

----------------------------------------------------------------------------
(* C22                                                                      *)

\* The string is the paths in their order with one space between two of them.
JoinedBySpace(string, paths) ==
    /\ Len(string) = IF paths = <<>> THEN 0 ELSE 2 * Len(paths) - 1
    /\ \A i \in 1..Len(paths) : string[2 * i - 1] = paths[i]
    /\ \A i \in 1..(Len(paths) - 1) : string[2 * i] = " "

\* The module set is one whose rule has the command $in and the
\* description $out.
Binding == compiler.modules \in BindingModules

\* C22: for every build statement the binding in is the explicit inputs joined
\* by a single space and out is the explicit outputs joined by a single space:
\* implicit inputs and implicit outputs never appear in $in or $out, while
\* the inputs of the Build are the explicit inputs followed by the implicit
\* inputs.
C22_InAndOutAreExplicit ==
    (Compiled /\ Binding) =>
        LET statement == compiler.modules["build.ninja"][2]
            ir == compiler.outputs[statement.outputs[1]]
            command == ir.rule[1].command
            description == ir.rule[1].description[1]
        IN  /\ JoinedBySpace(command, statement.inputs)
            /\ JoinedBySpace(description, statement.outputs)
            /\ Range(command) \cap Range(statement.implicit_inputs) = {}
            /\ Range(description) \cap Range(statement.implicit_outputs) = {}
            /\ ir.inputs = statement.inputs \o statement.implicit_inputs

\* A build statement with two explicit inputs, an implicit input, two explicit
\* outputs, an implicit output and a definition of in of its own has been
\* compiled.
C22_Witness ==
    /\ Compiled
    /\ Binding
    /\ LET statement == compiler.modules["build.ninja"][2]
       IN  /\ Len(statement.inputs) = 2
           /\ Len(statement.outputs) = 2
           /\ statement.implicit_inputs /= <<>>
           /\ statement.implicit_outputs /= <<>>
           /\ statement.variable_definitions /= <<>>
           /\ compiler.outputs["a"].inputs = <<"p", "q", "h">>

----------------------------------------------------------------------------
(* C23                                                                      *)

\* compile_module is at a build statement whose rule is not phony and is not
\* in the rule scope.
AtBuildOfUndefinedRule ==
    /\ AtStatement("build")
    /\ Statement.rule /= PHONY_RULE
    /\ ChainMapGet(Top.module_state.rules, Statement.rule) = None

\* compile has returned RuleNotFound with the name.
RuleNotFound(name) ==
    /\ compiler.result = Some("RuleNotFound")
    /\ compiler.argument = Some(name)

\* C23: a build statement whose rule name is not phony and is not defined in
\* the rule scope at that statement makes compile return RuleNotFound with
\* that name, record nothing for the statement and produce no Configuration:
\* the error is what compile has returned from then on.
C23_UndefinedRuleFails ==
    [][/\ AtBuildOfUndefinedRule =>
            /\ compiler'.result = Some("RuleNotFound")
            /\ compiler'.argument = Some(Statement.rule)
            /\ compiler'.outputs = compiler.outputs
       /\ compiler.result = Some("RuleNotFound") =>
            /\ compiler'.result = compiler.result
            /\ compiler'.argument = compiler.argument]_vars

\* compile has returned RuleNotFound(foo) for a module whose build bar: foo
\* comes before its rule foo.
C23_Witness ==
    /\ compiler.modules \in LateRuleModules
    /\ RuleNotFound("foo")

\* compile has returned RuleNotFound(foo) where no module defines a rule foo.
NeverDefinedNotFound ==
    /\ RuleNotFound("foo")
    /\ \A path \in DOMAIN compiler.modules :
          \A i \in 1..Len(compiler.modules[path]) :
              compiler.modules[path][i].type /= "rule"

----------------------------------------------------------------------------
(* C24                                                                      *)

\* How far the procedure of a build future has come.
Progress(pc) ==
    CASE pc = "registered" -> 0
      [] pc = "spawned" -> 1
      [] pc = "inputs" -> 2
      [] pc = "dynamic" -> 3
      [] pc = "permit" -> 4
      [] pc = "command" -> 5
      [] pc = "finish" -> 6
      [] pc = "done" -> 7

\* The builds that have an input among the outputs and implicit outputs of
\* the build and whose procedure has requested its inputs.
Requesters(id) ==
    {other \in Futures :
        /\ Progress(build_futures[other].pc) >= 2
        /\ Range(StaticInputs(TheBuild(other))) \cap DeclaredOutputs(TheBuild(id)) /= {}}

\* C24: within one run there is at most one build future per build id: however
\* many dependents request a build, through whichever of its outputs or
\* implicit outputs, the future of its id stays the one that was inserted
\* first, its procedure only goes forward and its command starts at most
\* once.
C24_OneFuturePerBuild ==
    [][run_pc' /= "exited" =>
          \A id \in Futures :
              /\ id \in DOMAIN build_futures'
              /\ Progress(build_futures'[id].pc) >= Progress(build_futures[id].pc)
              /\ (build_futures'[id].pc = "command" /\ build_futures[id].pc /= "command")
                    => id \notin executed]_vars

\* The command of a build has been executed and two other builds have
\* requested the build, through an output and an implicit output of it.
C24_Witness ==
    \E id \in Futures :
        /\ id \in executed
        /\ build_futures[id].pc = "done"
        /\ Cardinality(Requesters(id)) >= 2
        /\ \E other \in Requesters(id) :
              Range(TheBuild(other).inputs) \cap Range(TheBuild(id).implicit_outputs) /= {}

----------------------------------------------------------------------------
(* C25                                                                      *)

\* The procedure of the build has computed its timestamp hash, found every
\* output and implicit output and found the hash to be the stored one.
TimestampMatched(id) ==
    /\ IsSome(build_futures[id].timestamp_hash)
    /\ build_futures[id].outputs_exist
    /\ IsSome(build_futures[id].old_hash)
    /\ build_futures[id].timestamp_hash[1] = build_futures[id].old_hash[1].timestamp

\* C25: if every output and implicit output of a build exists and the newly
\* computed timestamp hash equals the timestamp component stored for the
\* build's id, the build succeeds without computing the content hash and
\* without executing its command.
C25_TimestampMatchSkips ==
    \A id \in Futures :
        TimestampMatched(id) =>
            /\ build_futures[id].pc = "done"
            /\ build_futures[id].result = Some("ok")
            /\ build_futures[id].content_hash = None
            /\ id \notin executed

\* A build with a rule and an input has succeeded by the match of its
\* timestamp hash in a run after the one that stored it.
C25_Witness ==
    \E id \in Futures :
        /\ TimestampMatched(id)
        /\ IsSome(TheBuild(id).rule)
        /\ TheBuild(id).inputs /= <<>>
        /\ run_count > 1
        /\ build_futures[id].result = Some("ok")

----------------------------------------------------------------------------
(* C26                                                                      *)

\* The procedure of a build with a rule has computed its hashes and found an
\* output or implicit output missing.
OutputMissing(id) ==
    /\ IsSome(TheBuild(id).rule)
    /\ IsSome(build_futures[id].timestamp_hash)
    /\ ~build_futures[id].outputs_exist

\* Both hashes the procedure has computed are the stored ones.
BothHashesStored(id) ==
    /\ IsSome(build_futures[id].old_hash)
    /\ IsSome(build_futures[id].timestamp_hash)
    /\ IsSome(build_futures[id].content_hash)
    /\ build_futures[id].old_hash[1]
          = BuildHash(build_futures[id].timestamp_hash[1],
                      build_futures[id].content_hash[1])

----------------------------------------------------------------------------
(* C27                                                                      *)

\* The pair of hashes the procedure of the build has computed.
ComputedHash(id) ==
    BuildHash(build_futures[id].timestamp_hash[1], build_futures[id].content_hash[1])

\* The build has a rule and its procedure has returned Ok after its command.
ExecutedOk(id) ==
    /\ IsSome(TheBuild(id).rule)
    /\ id \in executed
    /\ build_futures[id].pc = "done"
    /\ build_futures[id].result = Some("ok")

\* C27: after a build with a rule executes its command successfully, the
\* database maps the build's id to the pair (timestamp_hash, content_hash)
\* that was computed from the build's inputs before the command ran: both
\* hashes are there when the build waits for its permit and are not computed
\* again.
C27_StoresHashesOfBefore ==
    /\ [](\A id \in Futures :
            /\ ExecutedOk(id) =>
                  /\ id \in DOMAIN database
                  /\ database[id] = ComputedHash(id)
            /\ build_futures[id].pc \in {"permit", "command", "finish"} =>
                  /\ IsSome(build_futures[id].timestamp_hash)
                  /\ IsSome(build_futures[id].content_hash))
    /\ [][\A id \in Futures :
             (build_futures[id].pc \in {"permit", "command", "finish"}
              /\ run_pc' /= "exited") =>
                /\ build_futures'[id].timestamp_hash = build_futures[id].timestamp_hash
                /\ build_futures'[id].content_hash = build_futures[id].content_hash]_vars

\* A build with a rule and an input has executed its command successfully and
\* its hashes are in the database, over another pair stored by the run before.
C27_Witness ==
    \E id \in Futures :
        /\ ExecutedOk(id)
        /\ TheBuild(id).inputs /= <<>>
        /\ IsSome(build_futures[id].old_hash)
        /\ build_futures[id].old_hash[1] /= ComputedHash(id)
        /\ database[id] = ComputedHash(id)

----------------------------------------------------------------------------
(* C28                                                                      *)

\* The procedure of the build has returned Ok and not by one of the two
\* returns of a build that is up to date.
DoneNotSkipped(id) ==
    /\ build_futures[id].pc = "done"
    /\ build_futures[id].result = Some("ok")
    /\ IsSome(build_futures[id].content_hash)
    /\ ~ContentUpToDate(build_futures[id].outputs_exist,
                        build_futures[id].content_hash[1],
                        build_futures[id].old_hash)

\* C28: a phony build (rule None) never executes a command and never acquires
\* a job permit, yet when it is not skipped as up to date it writes its
\* (timestamp_hash, content_hash), derived from its inputs, to the database
\* under its id.
C28_PhonyStoresWithoutCommand ==
    \A id \in Futures :
        TheBuild(id).rule = None =>
            /\ id \notin executed
            /\ build_futures[id].pc \notin {"permit", "command", "finish"}
            /\ build_futures[id].status = None
            /\ DoneNotSkipped(id) =>
                  /\ id \in DOMAIN database
                  /\ database[id] = ComputedHash(id)

\* A phony build with an input has stored its hashes while every permit is
\* free.
C28_Witness ==
    \E id \in Futures :
        /\ TheBuild(id).rule = None
        /\ TheBuild(id).inputs /= <<>>
        /\ DoneNotSkipped(id)
        /\ database[id] = ComputedHash(id)
        /\ permits = job_limit

----------------------------------------------------------------------------
(* C29                                                                      *)

\* The root await of run has completed with the error of a failed build and
\* the process has not exited yet.
RootAwaitFailed ==
    /\ run_pc \in {"flush", "returned"}
    /\ IsSome(run_result)
    /\ run_result /= Some("ok")

\* C29: after a build has failed and the root await of run has completed with
\* that error, no command of any other build begins execution: builds that
\* are independent of the failed build and were already spawned do not start
\* their command afterwards.
C29_NoCommandAfterFailure ==
    [][RootAwaitFailed =>
          \A id \in Futures :
              (id \in DOMAIN build_futures' /\ build_futures'[id].pc = "command")
                  => build_futures[id].pc = "command"]_vars

----------------------------------------------------------------------------
(* C30                                                                      *)

\* The tasks that hold a job permit: those whose command runs.
PermitHolders == {id \in Futures : build_futures[id].pc = "command"}

\* The tasks that wait for a job permit.
PermitWaiters == {id \in Futures : build_futures[id].pc = "permit"}

\* The tasks in run_rule that wait for the console lock.
ConsoleWaiters ==
    {id \in Futures : build_futures[id].pc \in {"command", "finish"}} \ console_lock

\* C30: the job permit and the console lock are always taken in the order
\* permit, then console lock: no task waits for a job permit while it holds
\* the console lock, so no circular wait between the semaphore and the
\* console lock is reachable, and a task holding the console lock always
\* releases it once its own command has exited: the step that writes the
\* output and drops the guard waits for nothing.
C30_PermitThenConsole ==
    /\ Cardinality(console_lock) <= 1
    /\ console_lock \cap PermitWaiters = {}
    /\ \A id \in console_lock :
          /\ id \in Futures
          /\ build_futures[id].pc \in {"command", "finish"}
          /\ build_futures[id].pc = "finish" => ENABLED FinishRule(id)
    /\ permits + Cardinality(PermitHolders) = job_limit \/ Futures = {}

\* With one permit in all, a task whose command has exited holds the console
\* lock while another task holds the permit and waits for the console.
C30_Witness ==
    \E holder \in console_lock :
    \E other \in ConsoleWaiters :
        /\ job_limit = 1
        /\ build_futures[holder].pc = "finish"
        /\ other \in PermitHolders
        /\ permits = 0


----------------------------------------------------------------------------
(* C31.  BuildGraph::new records every output of a build under the build's  *)
(* first output, and validate_dynamic starts the edges of a dynamic build   *)
(* at that primary output.                                                  *)

\* The dynamic build the harness has passed to validate_dynamic declares the
\* one input `input` for the output `output`.
DynamicBuildIs(output, input) ==
    /\ IsSome(validation.dynamic)
    /\ DOMAIN validation.dynamic[1] = {output}
    /\ validation.dynamic[1][output] = <<input>>

\* The pairs <<p, s>> of the primary output and a secondary output of a build.
PrimaryAndSecondary ==
    UNION {{<<b.outputs[1], b.outputs[i]>> : i \in 2..Len(b.outputs)} :
              b \in BuildsOf(configuration)}

\* C31: for a build with outputs [p, s, ...] in a graph that has passed
\* validate, the dynamic build s -> p is reported as the circular dependency
\* of p alone (its edge is the loop p -> p), and the dynamic build p -> s as
\* the circular dependency of s and p.
C31_SecondaryAttributedToPrimary ==
    \A pair \in PrimaryAndSecondary :
        LET p == pair[1]
            s == pair[2]
        IN  /\ DynamicBuildIs(s, p) =>
                  /\ validation.result = Some(CircularBuildDependency({p}))
                  /\ <<p, p>> \in graph.edges
            /\ DynamicBuildIs(p, s) =>
                  /\ validation.result = Some(CircularBuildDependency({s, p}))
                  /\ <<p, s>> \in graph.edges

\* The build [a, s] has an input of its own and the dynamic build s -> a has
\* been validated.
C31_Witness ==
    /\ <<"a", "s">> \in PrimaryAndSecondary
    /\ DynamicBuildIs("s", "a")
    /\ \E e \in graph.edges : e[1] = "s" /\ e[2] \notin {"a", "s"}

\* The dynamic build a -> s has been validated.
C31_WitnessPrimaryToSecondary ==
    /\ <<"a", "s">> \in PrimaryAndSecondary
    /\ DynamicBuildIs("a", "s")


----------------------------------------------------------------------------
(* C32.  hash_command is the first thing both hash calculations feed to the *)
(* hasher, so the command is part of both hashes.                           *)

\* The commands the rule of a build is compared under.
ComparedCommands == {"cp", "r", EditedCommand}

\* The build with another command in its rule.
OtherCommand(build, command) ==
    [build EXCEPT !.rule = Some(Rule(command, build.rule[1].description))]

\* The two hashes of a build over the files and the database of the state.
HashesNow(build, dynamic_inputs) ==
    LET file_inputs == FileInputs(configuration, build, dynamic_inputs)
        phony_inputs == PhonyInputs(configuration, build, dynamic_inputs)
    IN  [timestamp |-> calculate_timestamp_hash(configuration, files, database, build,
                                                file_inputs, phony_inputs, 0),
         content |-> calculate_content_hash(configuration, files, database, build,
                                            file_inputs, phony_inputs, 0)]

\* The run follows an edit of the command of the rule of this build.
CommandChanged(id) ==
    /\ history.changed
    /\ history.change = "command"
    /\ history.path = TheBuild(id).outputs[1]

\* C32: both hashes carry the rule command.  For the same inputs in the same
\* state two different commands give different timestamp hashes and different
\* content hashes (and the same errors), and in the run after only the
\* command of its rule was changed a build matches neither stored hash: it
\* computes both hashes, goes on to its command and does not succeed without
\* having executed it.
C32_CommandSeedsBothHashes ==
    \A id \in Futures :
        IsSome(TheBuild(id).rule) =>
            /\ \A command \in ComparedCommands \ {TheBuild(id).rule[1].command} :
                  LET one == HashesNow(TheBuild(id), build_futures[id].dynamic_inputs)
                      other == HashesNow(OtherCommand(TheBuild(id), command),
                                         build_futures[id].dynamic_inputs)
                  IN  /\ one.timestamp.ok = other.timestamp.ok
                      /\ one.content.ok = other.content.ok
                      /\ one.timestamp.ok => one.timestamp.value /= other.timestamp.value
                      /\ one.content.ok => one.content.value /= other.content.value
            /\ (CommandChanged(id) /\ IsSome(build_futures[id].timestamp_hash)) =>
                  /\ IsSome(build_futures[id].content_hash)
                  /\ IsSome(build_futures[id].old_hash) =>
                        /\ build_futures[id].timestamp_hash[1]
                              /= build_futures[id].old_hash[1].timestamp
                        /\ build_futures[id].content_hash[1]
                              /= build_futures[id].old_hash[1].content
                  /\ Progress(build_futures[id].pc) >= 4
                  /\ (build_futures[id].pc = "done"
                      /\ build_futures[id].result = Some("ok")) => id \in executed

\* After a successful run only the command of a rule was changed: no file
\* was touched, every output is still there, and the build, whose hashes of
\* the run before are in the database, has executed the new command.
C32_Witness ==
    \E id \in Futures :
        /\ CommandChanged(id)
        /\ history.prev_ok
        /\ build_futures[id].outputs_exist
        /\ IsSome(build_futures[id].old_hash)
        /\ TheBuild(id).rule[1].command = EditedCommand
        /\ TheBuild(id).inputs /= <<>>
        /\ id \in executed
        /\ build_futures[id].pc = "done"
        /\ build_futures[id].result = Some("ok")


----------------------------------------------------------------------------
(* C33.  calculate_fallback_hash gives a build without a rule and without a *)
(* hashed input a value drawn from rand::random, once for each of its two   *)
(* hashes.                                                                  *)

\* The build has no rule and spawn_build hashes no input of it: no explicit
\* or implicit input and no dynamic one.  Its order-only inputs do not count.
NothingHashed(id) ==
    /\ TheBuild(id).rule = None
    /\ HashedInputs(TheBuild(id), build_futures[id].dynamic_inputs) = <<>>

\* The procedure of the build has returned Ok.
ReturnedOk(id) ==
    /\ build_futures[id].pc = "done"
    /\ build_futures[id].result = Some("ok")

\* The builds with a rule that hash an output of the build as an explicit,
\* implicit or dynamic input.
HashedBy(id) ==
    {dependent \in Futures :
        /\ IsSome(TheBuild(dependent).rule)
        /\ \E input \in Range(HashedInputs(TheBuild(dependent),
                                           build_futures[dependent].dynamic_inputs)) :
              /\ input \in DOMAIN configuration.outputs
              /\ configuration.outputs[input].id = id}

\* Neither hash the procedure has computed is the one stored by a run before.
MatchesNoStoredHash(id) ==
    /\ IsSome(build_futures[id].timestamp_hash)
    /\ IsSome(build_futures[id].content_hash)
    /\ IsSome(build_futures[id].old_hash) =>
          /\ build_futures[id].timestamp_hash[1] /= build_futures[id].old_hash[1].timestamp
          /\ build_futures[id].content_hash[1] /= build_futures[id].old_hash[1].content

\* C33: in every run, a build with no rule and no hashed input that returns
\* Ok has drawn a random value for each of its hashes, has matched no stored
\* hash and has written the new pair over its database entry; and every build
\* with a rule that hashes one of its outputs and returns Ok has matched no
\* stored hash either and has executed its command.
C33_RandomHashEveryRun ==
    \A id \in Futures :
        (NothingHashed(id) /\ ReturnedOk(id)) =>
            /\ MatchesNoStoredHash(id)
            /\ build_futures[id].timestamp_hash[1].random > 0
            /\ build_futures[id].content_hash[1].random > 0
            /\ id \in stored
            /\ id \in DOMAIN database
            /\ database[id] = ComputedHash(id)
            /\ \A dependent \in HashedBy(id) :
                  ReturnedOk(dependent) =>
                      /\ MatchesNoStoredHash(dependent)
                      /\ dependent \in executed

\* In a run that follows a successful run with no file changed, and with
\* every output in place, the build without a rule and inputs has replaced
\* its database entry again and the build that hashes it has executed its
\* command again.
C33_Witness ==
    /\ RepeatedRun
    /\ \E id \in Futures :
          /\ NothingHashed(id)
          /\ ReturnedOk(id)
          /\ IsSome(build_futures[id].old_hash)
          /\ build_futures[id].old_hash[1] /= database[id]
          /\ \E dependent \in HashedBy(id) :
                /\ ReturnedOk(dependent)
                /\ build_futures[dependent].outputs_exist
                /\ IsSome(build_futures[dependent].old_hash)
                /\ dependent \in executed


----------------------------------------------------------------------------
(* C34.  interpolate_variables replaces the variables and then replaces     *)
(* "$$" in the string the first replacement has produced, values included.  *)

\* The template holds no "$$".
NoDollarDollar(template) ==
    \A i \in 1..(Len(template) - 1) : ~(template[i] = "$" /\ template[i + 1] = "$")

\* The value of x in scope at build out holds a "$".
DollarInValue ==
    \E i \in 1..Len(VariablesAtOut) :
        /\ <<"x">> \in DOMAIN VariablesAtOut[i]
        /\ "$" \in Range(VariablesAtOut[i][<<"x">>])

\* C34: interpolation is a single pass in which the value substituted for
\* $NAME appears verbatim, a "$OTHER" or a "$$" in it neither expanded nor
\* collapsed: for a template without "$$" the command is the template with
\* each $NAME replaced by its value and nothing else changed.
C34_ValuesVerbatim ==
    (Compiled /\ Interpolating /\ NoDollarDollar(TemplateOfR)) =>
        compiler.outputs["out"].rule[1].command
            = ReplaceVariables(TemplateOfR, VariablesAtOut, 1)

\* The part of C34 about "$OTHER": a name in the value of a variable is not
\* looked up again; the command differs from the verbatim replacement only
\* by its "$$".
NamesInValuesNotExpanded ==
    (Compiled /\ Interpolating) =>
        compiler.outputs["out"].rule[1].command
            = ReplaceDollars(ReplaceVariables(TemplateOfR, VariablesAtOut, 1), 1)

\* The command `$x` has been compiled with the value `$x` of x.
NameInValueCompiled ==
    /\ Compiled
    /\ Interpolating
    /\ TemplateOfR = <<"$", "x">>
    /\ DollarInValue
    /\ compiler.outputs["out"].rule[1].command = <<"$", "x">>


----------------------------------------------------------------------------
(* C35.  spawn_build sets the database entry of a build only after run_rule *)
(* has returned Ok, or for a build without a rule after its hashes.         *)

\* run returns an error only with the error of a root future, so with one
\* root build a failed run is a run in which that build failed: the build has
\* a rule, it is the root, and the run before this one returned an error.
FailedInRunBefore(id) ==
    /\ IsSome(TheBuild(id).rule)
    /\ run_count >= 2
    /\ ~history.prev_ok
    /\ RootIds = {id}

\* The procedure of the build has read the database entry of the build and
\* the entry is still the one it has read.
EntryAsRead(id) ==
    IF IsSome(build_futures[id].old_hash)
    THEN id \in DOMAIN database /\ database[id] = build_futures[id].old_hash[1]
    ELSE id \notin DOMAIN database

\* The build with a rule has passed its hashes in this run.
PastHashes(id) ==
    /\ IsSome(TheBuild(id).rule)
    /\ IsSome(build_futures[id].timestamp_hash)

\* The part of C35 about the database: a build that has failed, by the exit
\* status of its command or before its command, has not set its database
\* entry in this run, and the entry is the one read before the hashes.
FailureLeavesEntry ==
    \A id \in Futures :
        Failed(id) =>
            /\ id \notin stored
            /\ PastHashes(id) => EntryAsRead(id)

\* C35: a failed build leaves its database entry as it was before the run, so
\* the next run with the same files executes the command of the build again:
\* when no file was changed since the run in which the build failed, the
\* build does not return Ok without having executed its command.
C35_FailedBuildRunsAgain ==
    /\ FailureLeavesEntry
    /\ \A id \in Futures :
          (FailedInRunBefore(id) /\ ~history.changed /\ ReturnedOk(id)) =>
              id \in executed

\* The command of a build has exited with a failure status and the entry an
\* earlier run has stored for the build is still in the database.
FailedWithEntry ==
    \E id \in Futures :
        /\ Failed(id)
        /\ build_futures[id].status = Some(FALSE)
        /\ IsSome(build_futures[id].old_hash)
        /\ id \in DOMAIN database


----------------------------------------------------------------------------
(* C36.  The two returns of spawn_build for a build that is up to date come *)
(* before database().set.                                                   *)

\* The procedure of the build has returned Ok by the first return of
\* spawn_build, the match of the timestamp hash.
SkippedByTimestamp(id) ==
    /\ ReturnedOk(id)
    /\ TimestampMatched(id)

\* C36: a build skipped as up to date, by the timestamp match or by the
\* content match, leaves its database entry as it was read; after a skip by
\* the content match the stored timestamp hash is still the old one, other
\* than the one computed, and in a later run with the same files the build
\* computes the content hash and is skipped by it again, its command not
\* executed and its entry not set.
C36_SkipLeavesEntry ==
    \A id \in Futures :
        /\ (SkippedByTimestamp(id) \/ SkippedByContent(id)) =>
              /\ id \notin stored
              /\ id \notin executed
              /\ EntryAsRead(id)
        /\ (SkippedByContent(id) /\ ~TimestampMatched(id)) =>
              database[id].timestamp /= build_futures[id].timestamp_hash[1]
        /\ (id \in history.skipped /\ ~history.changed /\ build_futures[id].pc = "done") =>
              /\ SkippedByContent(id)
              /\ ~TimestampMatched(id)

\* A build with a rule was skipped by the match of its content hash in the
\* run before, no file was changed since, and it is skipped by the content
\* hash again, the timestamp hash in the database still the one stored by
\* the first run.
C36_Witness ==
    \E id \in Futures :
        /\ IsSome(TheBuild(id).rule)
        /\ run_count = LongRuns
        /\ id \in history.skipped
        /\ ~history.changed
        /\ SkippedByContent(id)
        /\ database[id].timestamp /= build_futures[id].timestamp_hash[1]


----------------------------------------------------------------------------
(* C37.  get_build_hash reads the database entry of the build that outputs  *)
(* a phony input, after spawn_build has awaited the future of that build.   *)

\* The procedure of the build is about to compute its hashes: both waits of
\* spawn_build have completed with Ok.
AboutToHash(id) ==
    /\ build_futures[id].pc = "dynamic"
    /\ AllOk(build_futures, configuration, files, build_futures[id].dynamic_inputs)

\* The phony inputs of the build: its static and dynamic hashed inputs whose
\* owning build has no rule.
PhonyInputsOf(id) ==
    Range(PhonyInputs(configuration, TheBuild(id), build_futures[id].dynamic_inputs))

\* C37: whenever the hashes of a build are computed, every phony input of
\* the build has an entry in the database, the future of its build having
\* completed with Ok before; so no build ever fails with the error of a phony
\* input without an entry.
C37_PhonyInputsHaveEntries ==
    \A id \in Futures :
        /\ AboutToHash(id) =>
              \A input \in PhonyInputsOf(id) :
                  /\ ReturnedOk(configuration.outputs[input].id)
                  /\ configuration.outputs[input].id \in DOMAIN database
        /\ build_futures[id].result /= Some("InputNotBuilt")

\* In a second run a build with a rule is about to hash a phony input, whose
\* build has written its entry over the one of the run before.
C37_Witness ==
    \E id \in Futures :
        /\ AboutToHash(id)
        /\ IsSome(TheBuild(id).rule)
        /\ run_count >= 2
        /\ \E input \in PhonyInputsOf(id) :
              /\ configuration.outputs[input].id \in stored
              /\ IsSome(build_futures[configuration.outputs[input].id].old_hash)


----------------------------------------------------------------------------
(* C38.  run awaits the futures of the default outputs; each future awaits  *)
(* the futures of the inputs of its build, the dynamic ones included.       *)

\* run is at its root await: the static graph has passed validate and the
\* futures of the default outputs have been triggered.
AtRootAwait == run_pc = "await"

\* C38: for a configuration whose static graph passes validate, with a job
\* limit of at least one and every command and file operation terminating,
\* run eventually returns, with success or an error: no set of build futures
\* waits on one another forever, also when dynamic modules add inputs.
C38_RunReturns == AtRootAwait ~> ~AtRootAwait

\* The same for the build files in which no input of a build is an implicit
\* output of another.
NoImplicitOutputAsInput ==
    \A b \in BuildsOf(configuration) :
        \A input \in Range(b.inputs) \cup Range(b.order_only_inputs) :
            \A c \in BuildsOf(configuration) : input \notin Range(c.implicit_outputs)

RunReturnsWithoutImplicit == (AtRootAwait /\ NoImplicitOutputAsInput) ~> ~AtRootAwait


----------------------------------------------------------------------------
(* C39.  add_edge is the only change BuildGraph makes to its graph, and     *)
(* validate_dynamic calls it before it validates.                           *)

\* validate_dynamic has returned CircularBuildDependency and a later call on
\* the same graph has returned.
ReturnedAfterCycle ==
    /\ IsSome(validation.later)
    /\ validation.later /= Some(Panic)

\* C39: edges of the build graph are only added, never removed, also by a
\* validate_dynamic that fails; so once validate_dynamic has returned
\* CircularBuildDependency, every later validate or validate_dynamic that
\* returns, returns CircularBuildDependency as well, and the cycle the first
\* one has closed is still in the graph.
C39_CycleStays ==
    /\ [](ReturnedAfterCycle =>
             /\ ~validation.later[1].ok
             /\ validation.later[1].paths /= {}
             /\ DynamicEdges(graph, validation.dynamic[1]) \subseteq graph.edges)
    /\ [][graph.edges \subseteq graph'.edges]_vars

\* After validate_dynamic has failed, the validate_dynamic of another dynamic
\* build has added an edge of its own and has failed as well.
C39_Witness ==
    /\ ReturnedAfterCycle
    /\ ~validation.later[1].ok
    /\ \E e \in graph.edges :
          /\ e \notin BuildGraphNew(configuration.outputs).edges
          /\ e \notin DynamicEdges(graph, validation.dynamic[1])


----------------------------------------------------------------------------
(* C40: reading the modules (read_modules of src/src/main.rs).  All module  *)
(* files lie in one directory and a path is its own canonical form.         *)

\* A module file holds at most MaxReferences include and subninja statements.
MaxReferences == 1

\* The loop of read_modules is followed while at most MaxPaths paths wait.
MaxPaths == 3

DEFAULT_BUILD_FILE == "build.ninja"

ModulePaths == {DEFAULT_BUILD_FILE, "a.ninja", "b.ninja"}

\* The module files on disk: each path that exists, with the include and
\* subninja statements of its module.
ModuleSources ==
    LET references ==
            UNION {[1..n -> {Include(p) : p \in ModulePaths}
                            \cup {Submodule(p) : p \in ModulePaths}] :
                      n \in 0..MaxReferences}
    IN  UNION {[existing -> references] : existing \in SUBSET ModulePaths \ {{}}}

ReadInit ==
    /\ reader \in {[sources |-> sources, pc |-> "start", paths |-> <<>>,
                    path |-> None, modules |-> {},
                    dependencies |-> [p \in {} |-> {}],
                    result |-> None] : sources \in ModuleSources}
    /\ run_pc = "read"
    /\ compiler = NoCompiler
    /\ configuration = Compile(<<>>, {})
    /\ dynamic_files = NoModules
    /\ job_limit = 1
    /\ files = [p \in {} |-> [exists |-> FALSE, mtime |-> 0, content |-> "old"]]
    /\ database = [id \in {} |-> BuildHash(RandomHash(0), RandomHash(0))]
    /\ build_futures = [id \in {} |-> NewFuture]
    /\ graph = EmptyGraph
    /\ permits = 0
    /\ run_result = None
    /\ flushed = FALSE
    /\ run_count = 0
    /\ executed = {}
    /\ stored = {}
    /\ random = 0
    /\ history = [prev_ok |-> FALSE, changed |-> FALSE, outputs_present |-> FALSE,
                  skipped |-> {}, path |-> "", change |-> ""]
    /\ validation = None
    /\ console = <<>>
    /\ console_lock = {}
    /\ report = NoReport

\* read_modules up to its loop: the path of the root module is canonicalized,
\* which fails when the file does not exist, and pushed.
ReadBegin ==
    /\ reader.pc = "start"
    /\ reader' = IF DEFAULT_BUILD_FILE \in DOMAIN reader.sources
                 THEN [reader EXCEPT !.pc = "loop", !.paths = <<DEFAULT_BUILD_FILE>>]
                 ELSE [reader EXCEPT !.pc = "returned", !.result = Some("Io")]
    /\ UNCHANGED <<configuration, dynamic_files, job_limit, files, database,
                   build_futures, graph, permits, run_pc, run_result, flushed,
                   run_count, executed, stored, random, history, validation,
                   console, console_lock, report, compiler>>

\* The head of the loop of read_modules: the last path pushed is popped.
ReadPop ==
    /\ reader.pc = "loop"
    /\ reader.paths /= <<>>
    /\ reader' = [reader EXCEPT
                      !.pc = "read",
                      !.path = Some(reader.paths[Len(reader.paths)]),
                      !.paths = SubSeq(reader.paths, 1, Len(reader.paths) - 1)]
    /\ UNCHANGED <<configuration, dynamic_files, job_limit, files, database,
                   build_futures, graph, permits, run_pc, run_result, flushed,
                   run_count, executed, stored, random, history, validation,
                   console, console_lock, report, compiler>>

\* The body of the loop of read_modules: the file of the path popped is read
\* and parsed, the paths its include and subninja statements name are
\* canonicalized, which fails for a file that does not exist, and pushed in
\* the order of the HashMap, and the module and its dependencies are inserted
\* under the path, whether or not the path was read before.
ReadModule ==
    /\ reader.pc = "read"
    /\ Len(reader.paths) < MaxPaths
    /\ LET path == reader.path[1]
           statements == reader.sources[path]
           submodule_paths == {statements[i].path : i \in DOMAIN statements}
           orders == {s \in [1..Cardinality(submodule_paths) -> submodule_paths] :
                         \A i, j \in DOMAIN s : s[i] = s[j] => i = j}
       IN  IF ~(submodule_paths \subseteq DOMAIN reader.sources)
           THEN reader' = [reader EXCEPT !.pc = "returned", !.path = None,
                                         !.result = Some("Io")]
           ELSE \E pushed \in orders :
                  reader' =
                      [reader EXCEPT
                          !.pc = "loop",
                          !.path = None,
                          !.paths = reader.paths \o pushed,
                          !.modules = reader.modules \cup {path},
                          !.dependencies =
                              [p \in DOMAIN reader.dependencies \cup {path} |->
                                  IF p = path THEN submodule_paths
                                  ELSE reader.dependencies[p]]]
    /\ UNCHANGED <<configuration, dynamic_files, job_limit, files, database,
                   build_futures, graph, permits, run_pc, run_result, flushed,
                   run_count, executed, stored, random, history, validation,
                   console, console_lock, report, compiler>>

\* No path is left: read_modules returns the modules and their dependencies,
\* and execute goes on to validate_modules.
ReadReturn ==
    /\ reader.pc = "loop"
    /\ reader.paths = <<>>
    /\ reader' = [reader EXCEPT !.pc = "returned", !.result = Some("ok")]
    /\ UNCHANGED <<configuration, dynamic_files, job_limit, files, database,
                   build_futures, graph, permits, run_pc, run_result, flushed,
                   run_count, executed, stored, random, history, validation,
                   console, console_lock, report, compiler>>

ReadNext ==
    \/ ReadBegin
    \/ ReadPop
    \/ ReadModule
    \/ ReadReturn

\* Nothing but read_modules runs on the runtime of main, and none of its
\* awaits waits for another task: a step that can be taken is taken.
ReadSpec == ReadInit /\ [][ReadNext]_vars /\ WF_vars(ReadNext)

\* C40: read_modules terminates for every finite set of module files, also
\* when the modules reference each other cyclically: it returns, so that
\* validate_modules is reached.
C40_ReadModulesReturns == <>(reader.pc = "returned")

============================================================================
